---------------------------- MODULE Spec2Model ----------------------------
(***************************************************************************)
(* State-machine model of the ServionX browser shell orchestration layer:  *)
(* the tab registry, navigation and privacy identity of App.tsx, the       *)
(* password-gated settings panel, the download panel and the download      *)
(* manager of SettingsPanel.tsx, and the IT tools panel and the secure     *)
(* keyboard of BrowserChrome.tsx.                                          *)
(*                                                                         *)
(* Every React event handler is one action (handlers run to their first    *)
(* await without interleaving, and React re-renders between two discrete   *)
(* events, so a handler's closure holds the current state).  Every backend *)
(* round trip is a record in a bag of in-flight calls; the settlement of a *)
(* call (resolve or reject) is a separate action that runs the handler's   *)
(* continuation.                                                           *)
(*                                                                         *)
(* Strings that the code inspects (urls, titles) are sequences of          *)
(* one-character strings.  Tab ids are the decimal strings of clock        *)
(* readings; Number -> decimal string is injective, so an id is modelled   *)
(* by the number it prints, and the empty string '' by EmptyId.            *)
(***************************************************************************)
EXTENDS Naturals, Integers, Sequences, FiniteSets, Bags, TLC

VARIABLES
    tabs,            \* App: useState<Tab[]>
    activeTabId,     \* App: useState('1')
    now,             \* the clock read by Date.now()
    closeCalls,      \* the tab id of the latest unsettled close_browser_tab call (as a set)
    navs,            \* bag of unsettled create_browser_tab calls and running settle timers
    lastOp,          \* history: the last tab operation with the state it started from
    settingsOpen,    \* App: settingsOpen
    panelTab,        \* SettingsPanel: activeTab
    isAuthenticated,
    isLogsAuthenticated,
    settingsPasswordError,
    logsPasswordError,
    settings,        \* SettingsPanel: the toggle values
    backendSettings, \* backend: the stored value of every setting
    panelDetails,    \* SettingsPanel: the sessionId of fingerprint (0 for null)
    whitelist,       \* SettingsPanel: whitelist
    newDomain,       \* SettingsPanel: newDomain
    backendWhitelist,\* backend: the stored whitelist
    wlCalls,         \* bag of unsettled add_to_whitelist and remove_from_whitelist calls
    inflightPanel,   \* bag of unsettled backend calls issued by the settings panel
    lastPanel,       \* history: the last settings-panel step
    identityId,      \* App: privacyStatus.identityId
    privacyDetails,  \* App: privacyDetails
    backendIdentity, \* backend: the sessionId of the active identity
    regenCalls,      \* number of unsettled regenerate_identity calls
    groups,          \* the unsettled Promise.all groups of detail fetches
    nextGroup,       \* the number the next fetch group gets
    anyFailed,       \* history: an identity call has been rejected
    lastId,          \* history: the last identity step
    toolsOpen,       \* App: toolsOpen
    toolsTab,        \* ITToolsPanel: activeTab
    isLoading,       \* ITToolsPanel: isLoading, shared by connect, diagnostics and HTTP
    sshConnected,
    sshOutput,       \* ITToolsPanel: the lines of the terminal
    sshCommand,
    sshHost,
    connectionId,
    nextConn,        \* backend: the id the next ssh connection gets
    shellCalls,      \* bag of unsettled ssh_connect, ssh_disconnect and ssh_execute calls
    lastShell,       \* history: the last shell step
    networkHost,
    networkTool,
    portRange,
    networkResult,
    httpUrl,
    httpResult,
    netCalls,        \* bag of unsettled diagnostic and http_request calls
    lastNet,         \* history: the last diagnostics or HTTP step
    dlOpen,          \* DownloadPanel: the isOpen prop
    dlTab,           \* DownloadPanel: activeTab
    downloads,       \* DownloadPanel: the mirror of the download list
    detectedVideos,  \* DownloadPanel: the mirror of the detected media
    downloadDir,
    urlInput,
    pollTimers,      \* number of live setInterval timers of the panel
    nextJob,         \* backend: the id the next download job gets
    dlCalls,         \* bag of unsettled backend calls issued by the download panel
    lastDl,          \* history: the last download-panel step
    downloadsOpen,   \* App: downloadsOpen, the isOpen prop of DownloadManager
    managerDownloads,\* DownloadManager: downloads
    stats,           \* DownloadManager: stats
    managerTimers,   \* number of live setInterval timers of DownloadManager
    managerCalls,    \* number of unsettled get_downloads calls of DownloadManager
    managerOrder,    \* these calls in the order of their dispatch; TRUE marks a call
                     \* dispatched before the call whose response the mirror shows
    lastManager,     \* history: the last DownloadManager step
    keyboardOpen,    \* App: keyboardOpen, the isOpen prop of VirtualKeyboard
    layout,          \* VirtualKeyboard: layout
    shuffled,
    isShift,
    isCaps,
    inputValue,      \* VirtualKeyboard: the input buffer
    keyCalls,        \* bag of unsettled backend calls issued by the keyboard
    lastKey          \* history: the last keyboard step

tabVars   == <<tabs, activeTabId, now, closeCalls, navs, lastOp>>
storeVars == <<backendSettings, panelDetails, whitelist, newDomain,
               backendWhitelist, wlCalls>>
panelVars == <<settingsOpen, panelTab, isAuthenticated, isLogsAuthenticated,
               settingsPasswordError, logsPasswordError, settings,
               inflightPanel, lastPanel, storeVars>>
identVars == <<identityId, privacyDetails, backendIdentity, regenCalls,
               groups, nextGroup, anyFailed, lastId>>
shellVars == <<toolsOpen, toolsTab, isLoading, sshConnected, sshOutput,
               sshCommand, sshHost, connectionId, nextConn, shellCalls, lastShell>>
netVars   == <<networkHost, networkTool, portRange, networkResult, httpUrl,
               httpResult, netCalls, lastNet>>
toolVars  == <<shellVars, netVars>>
dlVars    == <<dlOpen, dlTab, downloads, detectedVideos, downloadDir, urlInput,
               pollTimers, nextJob, dlCalls, lastDl>>
mgrVars   == <<downloadsOpen, managerDownloads, stats, managerTimers,
               managerCalls, managerOrder, lastManager>>
kbVars    == <<keyboardOpen, layout, shuffled, isShift, isCaps, inputValue,
               keyCalls, lastKey>>
vars      == <<tabVars, panelVars, identVars, toolVars, dlVars, mgrVars, kbVars>>

nonTabVars   == <<panelVars, identVars, toolVars, dlVars, mgrVars, kbVars>>
nonPanelVars == <<tabVars, identVars, toolVars, dlVars, mgrVars, kbVars>>
nonIdentVars == <<tabVars, panelVars, toolVars, dlVars, mgrVars, kbVars>>
nonToolVars  == <<tabVars, panelVars, identVars, dlVars, mgrVars, kbVars>>
nonDlVars    == <<tabVars, panelVars, identVars, toolVars, mgrVars, kbVars>>
nonMgrVars   == <<tabVars, panelVars, identVars, toolVars, dlVars, kbVars>>
nonKbVars    == <<tabVars, panelVars, identVars, toolVars, dlVars, mgrVars>>

---------------------------------------------------------------------------
(* Bounds *)
MaxTabs       == 3   \* addTab is not taken beyond this many tabs
MaxClock      == 3   \* the clock is not advanced beyond this reading
MaxNavs       == 2   \* navigations (calls and settle timers) in flight at once
MaxInflight   == 4   \* settings-panel backend calls in flight at once, counting the calls they lead to
MaxRegens     == 1   \* identity regenerations that get as far as their detail fetches
MaxShellCalls == 2   \* shell calls in flight at once
MaxLog        == 9   \* lines of the terminal, counting those the calls in flight can append
MaxConns      == 2   \* ssh connections the backend hands out
MaxPortLen    == 3   \* characters typed into the ports field
MaxItems      == 1   \* downloads in a list returned by get_downloads
MaxJobs       == 1   \* download jobs the backend creates
MaxDlCalls    == 3   \* download-panel backend calls in flight at once, counting the calls they lead to
MaxEntries    == 2   \* downloads in a list returned to DownloadManager
MaxMgrCalls   == 2   \* get_downloads calls of DownloadManager in flight at once
MaxPolls      == 1   \* of these, where every list the backend can return is tried
MaxBuffer     == 2   \* characters of the keyboard buffer, counting the keys in flight
MaxKeyCalls   == 2   \* keyboard backend calls in flight at once
MaxWlCalls    == 2   \* whitelist backend calls in flight at once
MaxWhitelist  == 2   \* entries of the displayed whitelist

---------------------------------------------------------------------------
(* Strings *)
EmptyId    == 0
InitialId  == 1
ClockStart == InitialId + 1   \* the first clock reading that does not print the initial id

EmptyStr    == << >>
NewTabTitle == <<"N","e","w"," ","T","a","b">>
HttpScheme  == <<"h","t","t","p",":","/","/">>
HttpsScheme == <<"h","t","t","p","s",":","/","/">>
SearchHost == <<"d","u","c","k","d","u","c","k","g","o",".","c","o","m">>
SearchPrefix == HttpsScheme \o SearchHost \o <<"/","?","q","=">>

includes(s, c) == \E i \in 1..Len(s) : s[i] = c

startsWith(s, p) == Len(s) >= Len(p) /\ SubSeq(s, 1, Len(p)) = p

\* encodeURIComponent on the characters the inputs use: unreserved
\* characters are kept, the others become their %XX escape.
encodeChar(c) ==
    CASE c = " " -> <<"%","2","0">>
      [] c = ":" -> <<"%","3","A">>
      [] c = "/" -> <<"%","2","F">>
      [] c = "?" -> <<"%","3","F">>
      [] c = "=" -> <<"%","3","D">>
      [] c = "%" -> <<"%","2","5">>
      [] OTHER   -> <<c>>

RECURSIVE encodeURIComponent(_)
encodeURIComponent(s) ==
    IF s = << >> THEN << >>
    ELSE encodeChar(Head(s)) \o encodeURIComponent(Tail(s))

\* navigateTo, lines 113-119: the url the navigation uses
resolve(url) ==
    IF ~includes(url, ".") \/ includes(url, " ")
      THEN SearchPrefix \o encodeURIComponent(url)
    ELSE IF ~startsWith(url, HttpScheme) /\ ~startsWith(url, HttpsScheme)
      THEN HttpsScheme \o url
    ELSE url

Digits == {"0", "1", "2", "3", "4", "5", "6", "7", "8", "9"}

\* new URL(u) for an http(s) url without userinfo, by the URL standard: the
\* authority runs to the first "/", "?" or "#", the host to the first ":"
\* of the authority, and what follows that ":" is the port
RECURSIVE takeUntil(_, _)
takeUntil(s, stops) ==
    IF s = << >> \/ Head(s) \in stops THEN << >>
    ELSE <<Head(s)>> \o takeUntil(Tail(s), stops)

afterScheme(u) ==
    IF startsWith(u, HttpsScheme) THEN SubSeq(u, Len(HttpsScheme) + 1, Len(u))
    ELSE IF startsWith(u, HttpScheme) THEN SubSeq(u, Len(HttpScheme) + 1, Len(u))
    ELSE << >>

authority(u) == takeUntil(afterScheme(u), {"/", "?", "#"})

takeHost(s) == takeUntil(s, {"/", "?", "#", ":"})

portOf(u) ==
    LET a == authority(u)
        h == takeHost(a)
    IN  IF Len(a) > Len(h) THEN SubSeq(a, Len(h) + 2, Len(a)) ELSE << >>

\* new URL(u) returns: the host is not empty and the port is made of digits;
\* otherwise the constructor throws a TypeError
validUrl(u) ==
    /\ takeHost(afterScheme(u)) # << >>
    /\ \A i \in 1..Len(portOf(u)) : portOf(u)[i] \in Digits

\* new URL(u).hostname of a url the constructor accepts
hostname(u) == takeHost(afterScheme(u))

\* texts a user submits to navigateTo: nothing, a word, a text with a dot
\* and a space, a host, urls with the http, https and ftp schemes, and a
\* host with a port that is not a number
FtpScheme == <<"f","t","p",":","/","/">>

NavInputs ==
    { EmptyStr,
      <<"a">>,
      <<"a","."," ","b">>,
      <<"a",".","b">>,
      HttpScheme \o <<"x",".","c">>,
      HttpsScheme \o <<"x",".","c">>,
      FtpScheme \o <<"x",".","c">>,
      <<"a",".","b",":","c">> }

\* the text submitted in the registry specification
TabNavInputs == { HttpScheme \o <<"x",".","c">> }

---------------------------------------------------------------------------
(* Tab registry: App.tsx *)

blankTab(id) ==
    [id |-> id, title |-> NewTabTitle, url |-> EmptyStr,
     isLoading |-> FALSE, isSecure |-> TRUE]

ids(ts) == { ts[i].id : i \in 1..Len(ts) }

\* Array.prototype.findIndex(t => t.id === id): 0-based, -1 when absent
findIndex(ts, id) ==
    IF id \in ids(ts)
      THEN (CHOOSE i \in 1..Len(ts) :
              ts[i].id = id /\ \A j \in 1..(i-1) : ts[j].id # id) - 1
      ELSE -1

\* Array.prototype.filter(t => t.id !== tabId)
filterTabs(ts, tabId) == SelectSeq(ts, LAMBDA t : t.id # tabId)

min(a, b) == IF a <= b THEN a ELSE b

\* the updater without lines 89-91
closeTabTabsNoSynth(prev, tabId, clock) == filterTabs(prev, tabId)

\* closeTab, lines 87-93: the setTabs updater
closeTabTabs(prev, tabId, clock) ==
    LET newTabs == filterTabs(prev, tabId) IN
    IF Len(newTabs) = 0 THEN <<blankTab(clock)>> ELSE newTabs

\* the updater without the Math.min of line 100: an index past the end
\* falls to newTabs[0] in line 101
closeTabActiveNoClamp(prev, ts, tabId) ==
    LET currentIndex == findIndex(ts, prev)
        newTabs      == filterTabs(ts, tabId)
    IN  IF Len(newTabs) = 0 THEN EmptyId
        ELSE IF currentIndex >= 0 /\ currentIndex < Len(newTabs)
               THEN newTabs[currentIndex + 1].id
        ELSE newTabs[1].id

\* closeTab, lines 96-102: the setActiveTabId updater; ts is the tab list
\* of the render the handler was created in
closeTabActive(prev, ts, tabId) ==
    LET currentIndex == findIndex(ts, prev)
        newTabs      == filterTabs(ts, tabId)
        newIndex     == min(currentIndex, Len(newTabs) - 1)
    IN  IF Len(newTabs) = 0 THEN EmptyId
        ELSE IF newIndex >= 0 THEN newTabs[newIndex + 1].id
        ELSE newTabs[1].id

\* updateTab, lines 106-110
updateTab(ts, tabId, updates) ==
    [i \in 1..Len(ts) |->
        IF ts[i].id = tabId
          THEN [f \in DOMAIN ts[i] |->
                  IF f \in DOMAIN updates THEN updates[f] ELSE ts[i][f]]
          ELSE ts[i]]

\* line 165: the tab the chrome shows as current
activeTab == IF activeTabId \in ids(tabs)
               THEN tabs[findIndex(tabs, activeTabId) + 1]
               ELSE tabs[1]

\* the ids of a tab list, in order
idSeq(ts) == [i \in 1..Len(ts) |-> ts[i].id]

\* history records: an operation, its argument and, for a close, the id
\* list and active id it started from
Did(op, id)   == [op |-> op, id |-> id, ids |-> << >>, active |-> EmptyId, tabs |-> << >>,
                  input |-> EmptyStr]
\* for a step of a navigation: the text submitted or the url of the
\* navigation, and the tabs the step started from
DidNav(op, id, text) == [Did(op, id) EXCEPT !.input = text, !.tabs = tabs]
DidClose(id)  == [Did("close", id) EXCEPT !.ids = idSeq(tabs), !.active = activeTabId]
DidSettle(id) == [Did("closeSettle", id) EXCEPT !.active = activeTabId, !.tabs = tabs]

InitTabs ==
    /\ tabs = <<blankTab(InitialId)>>
    /\ activeTabId = InitialId
    /\ now = ClockStart
    /\ closeCalls = {}
    /\ navs = EmptyBag
    /\ lastOp = Did("init", EmptyId)

\* time passes between two events
Tick ==
    /\ now < MaxClock
    /\ now' = now + 1
    /\ UNCHANGED <<tabs, activeTabId, closeCalls, navs, lastOp>>
    /\ UNCHANGED nonTabVars

\* addTab, lines 72-82
addTab ==
    /\ Len(tabs) < MaxTabs
    /\ tabs' = Append(tabs, blankTab(now))
    /\ activeTabId' = now
    /\ lastOp' = Did("add", now)
    /\ UNCHANGED <<now, closeCalls, navs>>
    /\ UNCHANGED nonTabVars

\* onTabSelect = setActiveTabId, line 173; the chrome offers the listed tabs
selectTab(tabId) ==
    /\ tabId \in ids(tabs)
    /\ activeTabId' = tabId
    /\ lastOp' = Did("other", EmptyId)
    /\ UNCHANGED <<tabs, now, closeCalls, navs>>
    /\ UNCHANGED nonTabVars

\* a closeTab that leaves the removal to the settlement of the call
closeTabAwaitsBackend(tabId) ==
    /\ tabId \in ids(tabs)
    /\ closeCalls' = {tabId}
    /\ lastOp' = DidClose(tabId)
    /\ UNCHANGED <<tabs, activeTabId, now, navs>>
    /\ UNCHANGED nonTabVars

\* closeTab, lines 84-104; the chrome offers the close button of the listed
\* tabs.  Line 85 attaches nothing but an empty catch to close_browser_tab,
\* so an unsettled call has no continuation: the model follows the latest
\* call only, and an earlier unsettled one is a call that never settles.
closeTab(tabId) ==
    /\ tabId \in ids(tabs)
    /\ closeCalls' = {tabId}
    /\ tabs' = closeTabTabs(tabs, tabId, now)
    /\ activeTabId' = IF activeTabId = tabId
                        THEN closeTabActive(activeTabId, tabs, tabId)
                        ELSE activeTabId
    /\ lastOp' = DidClose(tabId)
    /\ UNCHANGED <<now, navs>>
    /\ UNCHANGED nonTabVars

\* line 85: close_browser_tab resolves, or rejects into the empty catch
closeSettle(tabId) ==
    /\ tabId \in closeCalls
    /\ closeCalls' = closeCalls \ {tabId}
    /\ lastOp' = DidSettle(tabId)
    /\ UNCHANGED <<tabs, activeTabId, now, navs>>
    /\ UNCHANGED nonTabVars

one(x) == SetToBag({x})

\* navigateTo, lines 112-131: up to the await of create_browser_tab
navigateTo(url) ==
    LET finalUrl == resolve(url) IN
    /\ BagCardinality(navs) < MaxNavs
    /\ tabs' = updateTab(tabs, activeTabId,
                 [url |-> finalUrl, isLoading |-> TRUE,
                  isSecure |-> startsWith(finalUrl, HttpsScheme)])
    /\ navs' = navs (+) one([tabId |-> activeTabId, url |-> finalUrl, phase |-> "call"])
    /\ lastOp' = DidNav("navigate", activeTabId, url)
    /\ UNCHANGED <<activeTabId, now, closeCalls>>
    /\ UNCHANGED nonTabVars

\* lines 128-138: create_browser_tab resolved; the settle timer is started
navResolved(n) ==
    /\ BagIn(n, navs) /\ n.phase = "call"
    /\ navs' = (navs (-) one(n)) (+) one([n EXCEPT !.phase = "timer"])
    /\ lastOp' = DidNav("navResolved", n.tabId, n.url)
    /\ UNCHANGED <<tabs, activeTabId, now, closeCalls>>
    /\ UNCHANGED nonTabVars

\* a settle timer that updates the tab active when it fires
navTimerOnActive(n) ==
    /\ BagIn(n, navs) /\ n.phase = "timer"
    /\ navs' = navs (-) one(n)
    /\ tabs' = IF validUrl(n.url)
                 THEN updateTab(tabs, activeTabId,
                        [isLoading |-> FALSE, title |-> hostname(n.url)])
                 ELSE tabs
    /\ lastOp' = DidNav("navTimer", n.tabId, n.url)
    /\ UNCHANGED <<activeTabId, now, closeCalls>>
    /\ UNCHANGED nonTabVars

\* lines 133-138: the settle timer fires.  The argument of updateTab is
\* evaluated first: when new URL(finalUrl) throws, updateTab is not called
\* and the exception ends the callback.
navTimer(n) ==
    /\ BagIn(n, navs) /\ n.phase = "timer"
    /\ navs' = navs (-) one(n)
    /\ tabs' = IF validUrl(n.url)
                 THEN updateTab(tabs, n.tabId,
                        [isLoading |-> FALSE, title |-> hostname(n.url)])
                 ELSE tabs
    /\ lastOp' = DidNav("navTimer", n.tabId, n.url)
    /\ UNCHANGED <<activeTabId, now, closeCalls>>
    /\ UNCHANGED nonTabVars

\* lines 139-142: create_browser_tab rejected
navRejected(n) ==
    /\ BagIn(n, navs) /\ n.phase = "call"
    /\ navs' = navs (-) one(n)
    /\ tabs' = updateTab(tabs, n.tabId, [isLoading |-> FALSE])
    /\ lastOp' = DidNav("navRejected", n.tabId, n.url)
    /\ UNCHANGED <<activeTabId, now, closeCalls>>
    /\ UNCHANGED nonTabVars

TabIds == 0..MaxClock

NextTabs ==
    \/ Tick
    \/ addTab
    \/ \E t \in TabIds : selectTab(t)
    \/ \E t \in TabIds : closeTab(t)
    \/ \E t \in TabIds : closeSettle(t)
    \/ \E u \in TabNavInputs : navs = EmptyBag /\ navigateTo(u)
    \/ \E n \in BagToSet(navs) : navResolved(n)
    \/ \E n \in BagToSet(navs) : navTimer(n)
    \/ \E n \in BagToSet(navs) : navRejected(n)


---------------------------------------------------------------------------
(* Settings panel: SettingsPanel.tsx, lines 23-325 *)

Keys      == {"torEnabled", "httpsOnly"}     \* two of the toggles of lines 47-62
PanelTabs == {"security", "logs"}   \* the tab with the modelled toggles and the tab with the logs gate

NoError        == ""
IncorrectError == "Incorrect password"
FailedError    == "Authentication failed"

\* lines 47-62
defaultSettings == [k \in Keys |-> k # "torEnabled"]

\* a call in flight; earlier marks an unlock request that was submitted
\* before the panel was last opened
call(cmd)          == [cmd |-> cmd, key |-> "-", value |-> FALSE, pre |-> FALSE,
                       earlier |-> FALSE]
setCall(k, v, old) == [cmd |-> "set_setting", key |-> k, value |-> v, pre |-> old,
                       earlier |-> FALSE]

Unlocks == {"unlock_settings", "unlock_logs"}

age(c) == IF c.cmd \in Unlocks THEN [c EXCEPT !.earlier = TRUE] ELSE c

\* the calls in flight when the panel is opened: the unlock requests among
\* them belong to an earlier open period from now on
aged(bag) ==
    LET copies(r) == IF r \in DOMAIN bag THEN bag[r] ELSE 0
        fresh(r)  == [r EXCEPT !.earlier = FALSE]
    IN  [r \in {age(c) : c \in DOMAIN bag} |->
            IF r.cmd \in Unlocks THEN copies(r) + copies(fresh(r)) ELSE copies(r)]

\* the auth state a step starts from
Before == [auth |-> isAuthenticated, logsAuth |-> isLogsAuthenticated,
           err |-> settingsPasswordError, logsErr |-> logsPasswordError]

NoBefore == [auth |-> FALSE, logsAuth |-> FALSE, err |-> NoError, logsErr |-> NoError]

\* history records: a step that the properties below do not name, a named
\* step, a named step with the auth state it started from
Other    == [op |-> "other", key |-> "-", pre |-> FALSE, before |-> NoBefore, sent |-> {},
             earlier |-> FALSE]
Step(op) == [Other EXCEPT !.op = op]
Hist(op) == [Other EXCEPT !.op = op, !.before = Before]

InitPanel ==
    /\ settingsOpen = FALSE
    /\ panelTab = "security"
    /\ isAuthenticated = FALSE
    /\ isLogsAuthenticated = FALSE
    /\ settingsPasswordError = NoError
    /\ logsPasswordError = NoError
    /\ settings = defaultSettings
    /\ backendSettings = defaultSettings
    /\ panelDetails = EmptyId
    /\ whitelist = << >>
    /\ newDomain = EmptyStr
    /\ backendWhitelist = << >>
    /\ wlCalls = EmptyBag
    /\ inflightPanel = EmptyBag
    /\ lastPanel = Other

\* the calls a call in flight can still become: a successful
\* unlock_settings is followed by the three loads of lines 71-73
weight(cmd) == IF cmd = "unlock_settings" THEN 3 ELSE 1

RECURSIVE load(_)
load(bag) ==
    IF bag = EmptyBag THEN 0
    ELSE LET c == CHOOSE x \in BagToSet(bag) : TRUE
         IN  weight(c.cmd) + load(bag (-) SetToBag({c}))

\* the bound on the calls in flight
mayCall(cmd) == load(inflightPanel) + weight(cmd) <= MaxInflight

take(c) == inflightPanel (-) one(c)

\* the effect without line 148
openEffectKeepsAuth ==
    /\ isAuthenticated' = isAuthenticated
    /\ isLogsAuthenticated' = FALSE
    /\ settingsPasswordError' = NoError
    /\ logsPasswordError' = NoError

\* the effect of lines 145-155, which runs when isOpen turns true
openEffect ==
    /\ isAuthenticated' = FALSE
    /\ isLogsAuthenticated' = FALSE
    /\ settingsPasswordError' = NoError
    /\ logsPasswordError' = NoError

\* App line 181, followed by the effect
openSettings ==
    /\ ~settingsOpen
    /\ settingsOpen' = TRUE
    /\ openEffect
    /\ inflightPanel' = aged(inflightPanel)
    /\ lastPanel' = Hist("open")
    /\ UNCHANGED <<panelTab, settings>>
    /\ UNCHANGED storeVars
    /\ UNCHANGED nonPanelVars

\* line 507: the tab bar of the unlocked panel
setActiveTab(t) ==
    /\ settingsOpen /\ isAuthenticated
    /\ panelTab # t
    /\ panelTab' = t
    /\ lastPanel' = Other
    /\ UNCHANGED <<settingsOpen, isAuthenticated, isLogsAuthenticated,
                   settingsPasswordError,
                   logsPasswordError, settings, inflightPanel>>
    /\ UNCHANGED storeVars
    /\ UNCHANGED nonPanelVars

\* a login that clears the displayed error before it calls the backend
handleSettingsLoginClears ==
    /\ settingsOpen /\ ~isAuthenticated
    /\ mayCall("unlock_settings")
    /\ settingsPasswordError' = NoError
    /\ inflightPanel' = inflightPanel (+) one(call("unlock_settings"))
    /\ lastPanel' = Hist("settingsLogin")
    /\ UNCHANGED <<settingsOpen, panelTab, isAuthenticated, isLogsAuthenticated,
                   logsPasswordError, settings>>
    /\ UNCHANGED storeVars
    /\ UNCHANGED nonPanelVars

\* handleSettingsLogin, lines 65-67: up to the await; the login dialog is
\* shown while the panel is open and not authenticated (line 359)
handleSettingsLogin ==
    /\ settingsOpen /\ ~isAuthenticated
    /\ mayCall("unlock_settings")
    /\ inflightPanel' = inflightPanel (+) one(call("unlock_settings"))
    /\ lastPanel' = Hist("settingsLogin")
    /\ UNCHANGED <<settingsOpen, panelTab, isAuthenticated, isLogsAuthenticated,
                   settingsPasswordError,
                   logsPasswordError, settings>>
    /\ UNCHANGED storeVars
    /\ UNCHANGED nonPanelVars

\* an unlock of the settings that unlocks the logs with them
settingsUnlockedAlsoLogs(c) ==
    /\ BagIn(c, inflightPanel) /\ c.cmd = "unlock_settings"
    /\ isAuthenticated' = TRUE
    /\ isLogsAuthenticated' = TRUE
    /\ settingsPasswordError' = NoError
    /\ inflightPanel' = take(c) (+) one(call("get_all_settings"))
                                (+) one(call("load_data"))
                                (+) one(call("get_live_logs"))
    /\ lastPanel' = [Hist("settingsUnlocked") EXCEPT !.earlier = c.earlier]
    /\ UNCHANGED <<settingsOpen, panelTab, logsPasswordError, settings>>
    /\ UNCHANGED storeVars
    /\ UNCHANGED nonPanelVars

\* lines 68-73: unlock_settings returned true; loadSettings, loadData and
\* generateSecurityLogs each dispatch their first call
settingsUnlocked(c) ==
    /\ BagIn(c, inflightPanel) /\ c.cmd = "unlock_settings"
    /\ isAuthenticated' = TRUE
    /\ settingsPasswordError' = NoError
    /\ inflightPanel' = take(c) (+) one(call("get_all_settings"))
                                (+) one(call("load_data"))
                                (+) one(call("get_live_logs"))
    /\ lastPanel' = [Hist("settingsUnlocked") EXCEPT !.earlier = c.earlier]
    /\ UNCHANGED <<settingsOpen, panelTab, isLogsAuthenticated, logsPasswordError, settings>>
    /\ UNCHANGED storeVars
    /\ UNCHANGED nonPanelVars

\* lines 74-79: unlock_settings returned false, or rejected
settingsUnlockFailed(c, message) ==
    /\ BagIn(c, inflightPanel) /\ c.cmd = "unlock_settings"
    /\ settingsPasswordError' = message
    /\ inflightPanel' = take(c)
    /\ lastPanel' = Hist("settingsUnlockFailed")
    /\ UNCHANGED <<settingsOpen, panelTab, isAuthenticated, isLogsAuthenticated,
                   logsPasswordError, settings>>
    /\ UNCHANGED storeVars
    /\ UNCHANGED nonPanelVars

\* loadSettings, lines 83-106: get_all_settings resolved with the values b
\* that the backend holds when it answers
\* (a value the backend leaves out is replaced by the default of lines 87-100)
settingsLoaded(c, b) ==
    /\ BagIn(c, inflightPanel) /\ c.cmd = "get_all_settings"
    /\ b = backendSettings
    /\ settings' = b
    /\ inflightPanel' = take(c)
    /\ lastPanel' = Other
    /\ UNCHANGED <<settingsOpen, panelTab, isAuthenticated, isLogsAuthenticated,
                   settingsPasswordError,
                   logsPasswordError>>
    /\ UNCHANGED storeVars
    /\ UNCHANGED nonPanelVars

\* lines 103-105, 275-277, 119-121: a load whose rejection is only logged
loadRejected(c) ==
    /\ BagIn(c, inflightPanel)
    /\ c.cmd \in {"get_all_settings", "load_data", "get_encrypted_logs"}
    /\ inflightPanel' = take(c)
    /\ lastPanel' = Other
    /\ UNCHANGED <<settingsOpen, panelTab, isAuthenticated, isLogsAuthenticated,
                   settingsPasswordError,
                   logsPasswordError, settings>>
    /\ UNCHANGED storeVars
    /\ UNCHANGED nonPanelVars

\* loadData, lines 253-267: the joined fetch of fingerprint, geolocation,
\* user agent and whitelist resolved with what the backend holds when it
\* answers; the audit log is requested next
dataLoaded(c) ==
    /\ BagIn(c, inflightPanel) /\ c.cmd = "load_data"
    /\ panelDetails' = backendIdentity
    /\ whitelist' = backendWhitelist
    /\ inflightPanel' = take(c) (+) one(call("load_data_logs"))
    /\ lastPanel' = Other
    /\ UNCHANGED <<settingsOpen, panelTab, isAuthenticated, isLogsAuthenticated,
                   settingsPasswordError,
                   logsPasswordError, settings>>
    /\ UNCHANGED <<backendSettings, newDomain, backendWhitelist, wlCalls>>
    /\ UNCHANGED nonPanelVars

\* loadData, lines 266-274: get_encrypted_logs resolved (the backend's log)
\* or rejected (the two demo entries)
dataLogsSettled(c, ok) ==
    /\ BagIn(c, inflightPanel) /\ c.cmd = "load_data_logs"
    /\ inflightPanel' = take(c)
    /\ lastPanel' = Other
    /\ UNCHANGED <<settingsOpen, panelTab, isAuthenticated, isLogsAuthenticated,
                   settingsPasswordError,
                   logsPasswordError, settings>>
    /\ UNCHANGED storeVars
    /\ UNCHANGED nonPanelVars

\* generateSecurityLogs, lines 157-231: get_live_logs resolved with entries
\* (live) or resolved empty or rejected (the demo entries)
liveLogsSettled(c, live) ==
    /\ BagIn(c, inflightPanel) /\ c.cmd = "get_live_logs"
    /\ inflightPanel' = take(c)
    /\ lastPanel' = Other
    /\ UNCHANGED <<settingsOpen, panelTab, isAuthenticated, isLogsAuthenticated,
                   settingsPasswordError,
                   logsPasswordError, settings>>
    /\ UNCHANGED storeVars
    /\ UNCHANGED nonPanelVars

\* handleLogsLogin, lines 109-111: up to the await; the logs gate is shown
\* on the logs tab of the unlocked panel while logs are locked (line 666)
handleLogsLogin ==
    /\ settingsOpen /\ isAuthenticated /\ panelTab = "logs" /\ ~isLogsAuthenticated
    /\ mayCall("unlock_logs")
    /\ inflightPanel' = inflightPanel (+) one(call("unlock_logs"))
    /\ lastPanel' = Hist("logsLogin")
    /\ UNCHANGED <<settingsOpen, panelTab, isAuthenticated, isLogsAuthenticated,
                   settingsPasswordError,
                   logsPasswordError, settings>>
    /\ UNCHANGED storeVars
    /\ UNCHANGED nonPanelVars

\* lines 112-117: unlock_logs returned true; the audit log is requested
logsUnlocked(c) ==
    /\ BagIn(c, inflightPanel) /\ c.cmd = "unlock_logs"
    /\ isLogsAuthenticated' = TRUE
    /\ logsPasswordError' = NoError
    /\ inflightPanel' = take(c) (+) one(call("get_encrypted_logs"))
    /\ lastPanel' = [Hist("logsUnlocked") EXCEPT !.earlier = c.earlier]
    /\ UNCHANGED <<settingsOpen, panelTab, isAuthenticated, settingsPasswordError, settings>>
    /\ UNCHANGED storeVars
    /\ UNCHANGED nonPanelVars

\* lines 122-127: unlock_logs returned false, or rejected
logsUnlockFailed(c, message) ==
    /\ BagIn(c, inflightPanel) /\ c.cmd = "unlock_logs"
    /\ logsPasswordError' = message
    /\ inflightPanel' = take(c)
    /\ lastPanel' = Hist("logsUnlockFailed")
    /\ UNCHANGED <<settingsOpen, panelTab, isAuthenticated, isLogsAuthenticated,
                   settingsPasswordError, settings>>
    /\ UNCHANGED storeVars
    /\ UNCHANGED nonPanelVars

\* lines 117-118: get_encrypted_logs of handleLogsLogin resolved
logsLoaded(c) ==
    /\ BagIn(c, inflightPanel) /\ c.cmd = "get_encrypted_logs"
    /\ inflightPanel' = take(c)
    /\ lastPanel' = Other
    /\ UNCHANGED <<settingsOpen, panelTab, isAuthenticated, isLogsAuthenticated,
                   settingsPasswordError,
                   logsPasswordError, settings>>
    /\ UNCHANGED storeVars
    /\ UNCHANGED nonPanelVars

\* handleClose, lines 131-137: up to the first await; both the login
\* dialog and the unlocked panel show the close button (lines 415, 481)
handleClose ==
    /\ settingsOpen
    /\ mayCall("lock_settings")
    /\ isAuthenticated' = FALSE
    /\ isLogsAuthenticated' = FALSE
    /\ inflightPanel' = inflightPanel (+) one(call("lock_settings"))
    /\ lastPanel' = Hist("close")
    /\ UNCHANGED <<settingsOpen, panelTab, settingsPasswordError,
                   logsPasswordError, settings>>
    /\ UNCHANGED storeVars
    /\ UNCHANGED nonPanelVars

\* lines 137-138: lock_settings resolved, lock_logs is dispatched
lockSettingsResolved(c) ==
    /\ BagIn(c, inflightPanel) /\ c.cmd = "lock_settings"
    /\ inflightPanel' = take(c) (+) one(call("lock_logs"))
    /\ lastPanel' = Other
    /\ UNCHANGED <<settingsOpen, panelTab, isAuthenticated, isLogsAuthenticated,
                   settingsPasswordError,
                   logsPasswordError, settings>>
    /\ UNCHANGED storeVars
    /\ UNCHANGED nonPanelVars

\* lines 139-142: lock_settings rejected; the catch logs and onClose runs
lockSettingsRejected(c) ==
    /\ BagIn(c, inflightPanel) /\ c.cmd = "lock_settings"
    /\ inflightPanel' = take(c)
    /\ settingsOpen' = FALSE
    /\ lastPanel' = [Step("closed") EXCEPT !.sent = {"lock_settings"}]
    /\ UNCHANGED <<panelTab, isAuthenticated, isLogsAuthenticated,
                   settingsPasswordError,
                   logsPasswordError, settings>>
    /\ UNCHANGED storeVars
    /\ UNCHANGED nonPanelVars

\* lines 138-142: lock_logs resolved or rejected; onClose runs
lockLogsSettled(c) ==
    /\ BagIn(c, inflightPanel) /\ c.cmd = "lock_logs"
    /\ inflightPanel' = take(c)
    /\ settingsOpen' = FALSE
    /\ lastPanel' = [Step("closed") EXCEPT !.sent = {"lock_settings", "lock_logs"}]
    /\ UNCHANGED <<panelTab, isAuthenticated, isLogsAuthenticated,
                   settingsPasswordError,
                   logsPasswordError, settings>>
    /\ UNCHANGED storeVars
    /\ UNCHANGED nonPanelVars

\* toggleSetting, lines 313-318: up to the await; the toggles are on the
\* security tab of the unlocked panel
toggleSetting(key) ==
    LET newValue == ~settings[key] IN
    /\ settingsOpen /\ isAuthenticated /\ panelTab = "security"
    /\ mayCall("set_setting")
    /\ settings' = [settings EXCEPT ![key] = newValue]
    /\ inflightPanel' = inflightPanel (+) one(setCall(key, newValue, settings[key]))
    /\ lastPanel' = [Step("toggle") EXCEPT !.key = key, !.pre = settings[key]]
    /\ UNCHANGED <<settingsOpen, panelTab, isAuthenticated, isLogsAuthenticated,
                   settingsPasswordError,
                   logsPasswordError>>
    /\ UNCHANGED storeVars
    /\ UNCHANGED nonPanelVars

\* line 319: set_setting resolved; the backend holds the value of the call
settingPersisted(c) ==
    /\ BagIn(c, inflightPanel) /\ c.cmd = "set_setting"
    /\ backendSettings' = [backendSettings EXCEPT ![c.key] = c.value]
    /\ UNCHANGED <<panelDetails, whitelist, newDomain, backendWhitelist, wlCalls>>
    /\ inflightPanel' = take(c)
    /\ lastPanel' = [Step("settingPersisted") EXCEPT !.key = c.key, !.pre = c.pre]
    /\ UNCHANGED <<settingsOpen, panelTab, isAuthenticated, isLogsAuthenticated,
                   settingsPasswordError,
                   logsPasswordError, settings>>
    /\ UNCHANGED nonPanelVars

\* a rollback that flips the value it finds, !prev[key]
revertValueFlip(c, prev) == ~prev[c.key]

\* line 323: the value the rollback writes, !newValue
revertValue(c, prev) == ~c.value

\* a rollback that writes back the settings object the panel starts with,
\* apart from the toggled key
settingRejectedRestoresAll(c) ==
    /\ BagIn(c, inflightPanel) /\ c.cmd = "set_setting"
    /\ settings' = [defaultSettings EXCEPT ![c.key] = revertValue(c, settings)]
    /\ inflightPanel' = take(c)
    /\ lastPanel' = [Step("settingRejected") EXCEPT !.key = c.key, !.pre = c.pre]
    /\ UNCHANGED <<settingsOpen, panelTab, isAuthenticated, isLogsAuthenticated,
                   settingsPasswordError,
                   logsPasswordError>>
    /\ UNCHANGED storeVars
    /\ UNCHANGED nonPanelVars

\* lines 320-324: set_setting rejected
settingRejected(c) ==
    /\ BagIn(c, inflightPanel) /\ c.cmd = "set_setting"
    /\ settings' = [settings EXCEPT ![c.key] = revertValue(c, settings)]
    /\ inflightPanel' = take(c)
    /\ lastPanel' = [Step("settingRejected") EXCEPT !.key = c.key, !.pre = c.pre]
    /\ UNCHANGED <<settingsOpen, panelTab, isAuthenticated, isLogsAuthenticated,
                   settingsPasswordError,
                   logsPasswordError>>
    /\ UNCHANGED storeVars
    /\ UNCHANGED nonPanelVars

NextPanel ==
    \/ openSettings
    \/ \E t \in PanelTabs : setActiveTab(t)
    \/ handleSettingsLogin
    \/ handleLogsLogin
    \/ handleClose
    \/ \E c \in BagToSet(inflightPanel) : settingsUnlocked(c)
    \/ \E c \in BagToSet(inflightPanel), m \in {IncorrectError, FailedError} :
         settingsUnlockFailed(c, m)
    \/ \E c \in BagToSet(inflightPanel), b \in [Keys -> BOOLEAN] : settingsLoaded(c, b)
    \/ \E c \in BagToSet(inflightPanel) : loadRejected(c)
    \/ \E c \in BagToSet(inflightPanel) : dataLoaded(c)
    \/ \E c \in BagToSet(inflightPanel), ok \in BOOLEAN : dataLogsSettled(c, ok)
    \/ \E c \in BagToSet(inflightPanel), live \in BOOLEAN : liveLogsSettled(c, live)
    \/ \E c \in BagToSet(inflightPanel) : logsUnlocked(c)
    \/ \E c \in BagToSet(inflightPanel), m \in {IncorrectError, FailedError} :
         logsUnlockFailed(c, m)
    \/ \E c \in BagToSet(inflightPanel) : logsLoaded(c)
    \/ \E c \in BagToSet(inflightPanel) : lockSettingsResolved(c)
    \/ \E c \in BagToSet(inflightPanel) : lockSettingsRejected(c)
    \/ \E c \in BagToSet(inflightPanel) : lockLogsSettled(c)

---------------------------------------------------------------------------
(* Privacy identity: App.tsx, lines 30-69 and 145-163 *)

Slots == {"fingerprint", "geolocation", "userAgent"}

\* null in a slot of privacyDetails, and a fetch that has not resolved yet
NoDetail == [group |-> 0, ident |-> 0]

\* what a get_fake_* call of fetch group g returns: the detail object of the
\* identity that is active at the backend when the call is served
detail(g) == [group |-> g, ident |-> backendIdentity]

noDetails == [s \in Slots |-> NoDetail]

\* the three calls handed to Promise.all, none resolved yet
newGroup(g, kind) == [id |-> g, kind |-> kind, got |-> noDetails]

\* Promise.all resolves when every one of its promises has resolved
anyResolved(got) == \E s \in Slots : got[s] # NoDetail

allResolved(got) == \A s \in Slots : got[s] # NoDetail

IdBefore == [identityId |-> identityId, details |-> privacyDetails]

IdStep(op) == [op |-> op, kind |-> "-", session |-> EmptyId, before |-> IdBefore]

\* the state after the first render: the mount effect has called initPrivacy,
\* whose three fetches are in flight (lines 49-68)
InitIdentity ==
    /\ identityId = EmptyId
    /\ privacyDetails = noDetails
    /\ backendIdentity = 1
    /\ regenCalls = 0
    /\ groups = {newGroup(1, "init")}
    /\ nextGroup = 2
    /\ anyFailed = FALSE
    /\ lastId = [op |-> "init", kind |-> "-", session |-> EmptyId,
                 before |-> [identityId |-> EmptyId, details |-> noDetails]]

\* regenerateIdentity up to its first await, lines 145-147
regenerateIdentity ==
    /\ nextGroup + regenCalls <= MaxRegens + 1
    /\ regenCalls' = regenCalls + 1
    /\ lastId' = IdStep("regenerate")
    /\ UNCHANGED <<identityId, privacyDetails, backendIdentity, groups, nextGroup>>
    /\ UNCHANGED anyFailed
    /\ UNCHANGED nonIdentVars

\* a variant that takes the details from the regenerate_identity response
regenerateResolvedAdoptsDetails ==
    /\ regenCalls > 0
    /\ backendIdentity' = backendIdentity + 1
    /\ identityId' = backendIdentity + 1
    /\ privacyDetails' = [s \in Slots |->
                            [group |-> nextGroup, ident |-> backendIdentity + 1]]
    /\ groups' = groups \cup {newGroup(nextGroup, "regen")}
    /\ nextGroup' = nextGroup + 1
    /\ regenCalls' = regenCalls - 1
    /\ lastId' = [IdStep("regenerated") EXCEPT !.kind = "regen",
                                               !.session = backendIdentity + 1]
    /\ UNCHANGED anyFailed
    /\ UNCHANGED nonIdentVars

\* regenerate_identity resolves: the backend has replaced its identity; the
\* returned sessionId is adopted and the three detail fetches are dispatched
\* (lines 147-158)
regenerateResolved ==
    /\ regenCalls > 0
    /\ backendIdentity' = backendIdentity + 1
    /\ identityId' = backendIdentity + 1
    /\ groups' = groups \cup {newGroup(nextGroup, "regen")}
    /\ nextGroup' = nextGroup + 1
    /\ regenCalls' = regenCalls - 1
    /\ lastId' = [IdStep("regenerated") EXCEPT !.kind = "regen",
                                               !.session = backendIdentity + 1]
    /\ UNCHANGED privacyDetails
    /\ UNCHANGED anyFailed
    /\ UNCHANGED nonIdentVars

\* regenerate_identity rejects: the catch of lines 160-162
regenerateRejected ==
    /\ regenCalls > 0
    /\ regenCalls' = regenCalls - 1
    /\ lastId' = [IdStep("regenerateFailed") EXCEPT !.kind = "regen"]
    /\ UNCHANGED <<identityId, privacyDetails, backendIdentity, groups, nextGroup>>
    /\ anyFailed' = TRUE
    /\ UNCHANGED nonIdentVars

\* one fetch of group g resolves; when it is the last of the three,
\* Promise.all resolves and the continuation runs: setPrivacyDetails, and in
\* initPrivacy also the identityId (lines 57-61, 159)
fetchResolved(g, slot) ==
    /\ g \in groups
    /\ g.got[slot] = NoDetail
    /\ LET got == [g.got EXCEPT ![slot] = detail(g.id)]
       IN  IF allResolved(got)
           THEN /\ privacyDetails' = got
                /\ identityId' = IF g.kind = "init" THEN got["fingerprint"].ident
                                                    ELSE identityId
                /\ groups' = groups \ {g}
                /\ lastId' = [IdStep("groupApplied") EXCEPT !.kind = g.kind]
           ELSE /\ groups' = (groups \ {g}) \cup {[g EXCEPT !.got = got]}
                /\ lastId' = [IdStep("fetched") EXCEPT !.kind = g.kind]
                /\ UNCHANGED <<identityId, privacyDetails>>
    /\ UNCHANGED <<backendIdentity, regenCalls, nextGroup>>
    /\ UNCHANGED anyFailed
    /\ UNCHANGED nonIdentVars

\* one fetch of group g rejects: Promise.all rejects at once and the catch
\* runs (lines 62-64, 160-162); what the other two calls return is dropped
fetchRejected(g, slot) ==
    /\ g \in groups
    /\ g.got[slot] = NoDetail
    /\ groups' = groups \ {g}
    /\ lastId' = [IdStep("groupFailed") EXCEPT !.kind = g.kind]
    /\ UNCHANGED <<identityId, privacyDetails, backendIdentity, regenCalls, nextGroup>>
    /\ anyFailed' = TRUE
    /\ UNCHANGED nonIdentVars

NextIdentity ==
    \/ regenerateIdentity
    \/ regenerateResolved
    \/ regenerateRejected
    \/ \E g \in groups, s \in Slots : fetchResolved(g, s)
    \/ \E g \in groups, s \in Slots : fetchRejected(g, s)

---------------------------------------------------------------------------
(* IT tools panel, shell session: BrowserChrome.tsx, lines 224-312 *)

\* String.prototype.trim on sequences of characters
RECURSIVE trimStart(_)
trimStart(s) == IF s # EmptyStr /\ Head(s) = " " THEN trimStart(Tail(s)) ELSE s

RECURSIVE trimEnd(_)
trimEnd(s) ==
    IF s # EmptyStr /\ s[Len(s)] = " " THEN trimEnd(SubSeq(s, 1, Len(s) - 1)) ELSE s

trim(s) == trimEnd(trimStart(s))

\* one line of the terminal: which template built it and the text put in
Line(kind, text) == [kind |-> kind, text |-> text]

connectingLine(host) == Line("Connecting to ...", host)
ConnectedLine    == Line("Connected successfully!", EmptyStr)
BlankLine        == Line("", EmptyStr)
DisconnectedLine == Line("Disconnected.", EmptyStr)
ErrorLine        == Line("Error: ", EmptyStr)
echoLine(cmd)    == Line("$ ", cmd)

\* the lines appended for a result of ssh_execute, lines 301-306
resultLines(stdout, stderr) ==
    (IF stdout # EmptyStr THEN <<Line("stdout", stdout)>> ELSE << >>)
    \o (IF stderr # EmptyStr THEN <<Line("stderr: ", stderr)>> ELSE << >>)

Commands == {EmptyStr, <<" ">>, <<"l","s">>}   \* what is typed at the prompt
Stdouts  == {EmptyStr, <<"o">>}                \* result.stdout
Stderrs  == {EmptyStr, <<"e">>}                \* result.stderr

shellCall(cmd, conn, command) ==
    [cmd |-> cmd, conn |-> conn, command |-> command, host |-> EmptyStr]

\* ssh_connect with the host of the form, lines 262-267
connectCall(host) ==
    [cmd |-> "ssh_connect", conn |-> EmptyId, command |-> EmptyStr, host |-> host]

\* the lines a call in flight can still append to the log
linesOf(c) == IF c.cmd = "ssh_disconnect" THEN 1 ELSE 2

RECURSIVE reserved(_)
reserved(bag) ==
    IF bag = EmptyBag THEN 0
    ELSE LET c == CHOOSE x \in BagToSet(bag) : TRUE
         IN  linesOf(c) + reserved(bag (-) one(c))

\* the call c may be dispatched, leaving the log as given, when the calls in
\* flight and the lines they can append stay within the bounds
mayDispatch(log, c) ==
    /\ BagCardinality(shellCalls) < MaxShellCalls
    /\ Len(log) + reserved(shellCalls) + linesOf(c) <= MaxLog

ShellBefore == [log |-> sshOutput, connected |-> sshConnected,
                connectionId |-> connectionId]

NoShellCall == shellCall("-", EmptyId, EmptyStr)

\* the last shell step: the state it started from, the call it dispatched
\* or settled, and the lines the settled call returned
ShellStep(op, c) == [op |-> op, before |-> ShellBefore, call |-> c]

InitTools ==
    /\ toolsOpen = FALSE
    /\ toolsTab = "ssh"
    /\ isLoading = FALSE
    /\ sshConnected = FALSE
    /\ sshOutput = << >>
    /\ sshCommand = EmptyStr
    /\ sshHost = EmptyStr
    /\ connectionId = EmptyId
    /\ nextConn = 1
    /\ shellCalls = EmptyBag
    /\ lastShell = [op |-> "init",
                    before |-> [log |-> << >>, connected |-> FALSE,
                                connectionId |-> EmptyId],
                    call |-> NoShellCall]

\* the shell form and terminal are rendered (lines 378, 414-415)
shellShown == toolsOpen /\ toolsTab = "ssh"

\* App.tsx line 182
onToolsClick ==
    /\ ~toolsOpen
    /\ toolsOpen' = TRUE
    /\ lastShell' = ShellStep("open", NoShellCall)
    /\ UNCHANGED <<toolsTab, isLoading, sshConnected, sshOutput, sshCommand,
                   connectionId, nextConn, shellCalls>>
    /\ UNCHANGED <<sshHost, netVars>>
    /\ UNCHANGED nonToolVars

\* App.tsx line 310, BrowserChrome.tsx line 384: the panel stays mounted
closeTools ==
    /\ toolsOpen
    /\ toolsOpen' = FALSE
    /\ lastShell' = ShellStep("close", NoShellCall)
    /\ UNCHANGED <<toolsTab, isLoading, sshConnected, sshOutput, sshCommand,
                   connectionId, nextConn, shellCalls>>
    /\ UNCHANGED <<sshHost, netVars>>
    /\ UNCHANGED nonToolVars

\* the Host field of the connection form, lines 419-425, rendered while
\* not connected
setSshHost(h) ==
    /\ shellShown
    /\ ~sshConnected
    /\ sshHost # h
    /\ sshHost' = h
    /\ lastShell' = ShellStep("host", NoShellCall)
    /\ UNCHANGED <<toolsOpen, toolsTab, isLoading, sshConnected, sshOutput, sshCommand,
                   connectionId, nextConn, shellCalls>>
    /\ UNCHANGED netVars
    /\ UNCHANGED nonToolVars

\* handleSshConnect up to its await, lines 257-267; the button is rendered
\* while not connected and disabled while isLoading (lines 416, 446-452)
handleSshConnect ==
    /\ shellShown
    /\ ~sshConnected
    /\ ~isLoading
    /\ nextConn <= MaxConns
    /\ mayDispatch(<<connectingLine(sshHost)>>, connectCall(sshHost))
    /\ isLoading' = TRUE
    /\ sshOutput' = <<connectingLine(sshHost)>>
    /\ shellCalls' = shellCalls (+) one(connectCall(sshHost))
    /\ lastShell' = ShellStep("connect", connectCall(sshHost))
    /\ UNCHANGED <<toolsOpen, toolsTab, sshConnected, sshCommand, connectionId, nextConn>>
    /\ UNCHANGED <<sshHost, netVars>>
    /\ UNCHANGED nonToolVars

\* ssh_connect resolves with a fresh connection id, lines 268-270, 273-275
connectResolved(c) ==
    /\ c.cmd = "ssh_connect"
    /\ connectionId' = nextConn
    /\ nextConn' = nextConn + 1
    /\ sshConnected' = TRUE
    /\ sshOutput' = sshOutput \o <<ConnectedLine, BlankLine>>
    /\ isLoading' = FALSE
    /\ shellCalls' = shellCalls (-) one(c)
    /\ lastShell' = ShellStep("connectResolved", c)
    /\ UNCHANGED <<toolsOpen, toolsTab, sshCommand>>
    /\ UNCHANGED <<sshHost, netVars>>
    /\ UNCHANGED nonToolVars

\* ssh_connect rejects, lines 271-275
connectRejected(c) ==
    /\ c.cmd = "ssh_connect"
    /\ sshOutput' = Append(sshOutput, ErrorLine)
    /\ isLoading' = FALSE
    /\ shellCalls' = shellCalls (-) one(c)
    /\ lastShell' = ShellStep("connectRejected", c)
    /\ UNCHANGED <<toolsOpen, toolsTab, sshConnected, sshCommand, connectionId, nextConn>>
    /\ UNCHANGED <<sshHost, netVars>>
    /\ UNCHANGED nonToolVars

\* handleSshDisconnect up to its await, lines 279-281; the button is
\* rendered while connected (lines 454-461)
handleSshDisconnect ==
    /\ shellShown
    /\ sshConnected
    /\ mayDispatch(sshOutput, shellCall("ssh_disconnect", connectionId, EmptyStr))
    /\ shellCalls' = shellCalls (+) one(shellCall("ssh_disconnect", connectionId, EmptyStr))
    /\ lastShell' = ShellStep("disconnect", shellCall("ssh_disconnect", connectionId, EmptyStr))
    /\ UNCHANGED <<toolsOpen, toolsTab, isLoading, sshConnected, sshOutput, sshCommand,
                   connectionId, nextConn>>
    /\ UNCHANGED <<sshHost, netVars>>
    /\ UNCHANGED nonToolVars

\* ssh_disconnect resolves, lines 282-284
disconnectResolved(c) ==
    /\ c.cmd = "ssh_disconnect"
    /\ sshConnected' = FALSE
    /\ sshOutput' = Append(sshOutput, DisconnectedLine)
    /\ connectionId' = EmptyId
    /\ shellCalls' = shellCalls (-) one(c)
    /\ lastShell' = ShellStep("disconnectResolved", c)
    /\ UNCHANGED <<toolsOpen, toolsTab, isLoading, sshCommand, nextConn>>
    /\ UNCHANGED <<sshHost, netVars>>
    /\ UNCHANGED nonToolVars

\* ssh_disconnect rejects, lines 285-287
disconnectRejected(c) ==
    /\ c.cmd = "ssh_disconnect"
    /\ sshOutput' = Append(sshOutput, ErrorLine)
    /\ shellCalls' = shellCalls (-) one(c)
    /\ lastShell' = ShellStep("disconnectRejected", c)
    /\ UNCHANGED <<toolsOpen, toolsTab, isLoading, sshConnected, sshCommand,
                   connectionId, nextConn>>
    /\ UNCHANGED <<sshHost, netVars>>
    /\ UNCHANGED nonToolVars

\* typing at the prompt, line 478; the prompt is rendered while connected
\* (line 471)
setSshCommand(s) ==
    /\ shellShown
    /\ sshConnected
    /\ sshCommand # s
    /\ sshCommand' = s
    /\ lastShell' = ShellStep("type", NoShellCall)
    /\ UNCHANGED <<toolsOpen, toolsTab, isLoading, sshConnected, sshOutput,
                   connectionId, nextConn, shellCalls>>
    /\ UNCHANGED <<sshHost, netVars>>
    /\ UNCHANGED nonToolVars

\* a variant whose prompt is rendered whether or not the session is connected
handleSshExecuteAnytime ==
    /\ shellShown
    /\ trim(sshCommand) # EmptyStr
    /\ mayDispatch(Append(sshOutput, echoLine(sshCommand)),
                   shellCall("ssh_execute", connectionId, sshCommand))
    /\ sshOutput' = Append(sshOutput, echoLine(sshCommand))
    /\ shellCalls' = shellCalls (+) one(shellCall("ssh_execute", connectionId, sshCommand))
    /\ lastShell' = ShellStep("execute", shellCall("ssh_execute", connectionId, sshCommand))
    /\ UNCHANGED <<toolsOpen, toolsTab, isLoading, sshConnected, sshCommand,
                   connectionId, nextConn>>
    /\ UNCHANGED <<sshHost, netVars>>
    /\ UNCHANGED nonToolVars

\* handleSshExecute up to its await, lines 290-299, called by Enter at the
\* prompt, which is rendered while connected (lines 471-483)
handleSshExecute ==
    /\ shellShown
    /\ sshConnected
    /\ trim(sshCommand) # EmptyStr
    /\ mayDispatch(Append(sshOutput, echoLine(sshCommand)),
                   shellCall("ssh_execute", connectionId, sshCommand))
    /\ sshOutput' = Append(sshOutput, echoLine(sshCommand))
    /\ shellCalls' = shellCalls (+) one(shellCall("ssh_execute", connectionId, sshCommand))
    /\ lastShell' = ShellStep("execute", shellCall("ssh_execute", connectionId, sshCommand))
    /\ UNCHANGED <<toolsOpen, toolsTab, isLoading, sshConnected, sshCommand,
                   connectionId, nextConn>>
    /\ UNCHANGED <<sshHost, netVars>>
    /\ UNCHANGED nonToolVars

\* ssh_execute resolves, lines 301-308
executeResolved(c, stdout, stderr) ==
    /\ c.cmd = "ssh_execute"
    /\ sshOutput' = sshOutput \o resultLines(stdout, stderr)
    /\ sshCommand' = EmptyStr
    /\ shellCalls' = shellCalls (-) one(c)
    /\ lastShell' = ShellStep("executeResolved", c)
    /\ UNCHANGED <<toolsOpen, toolsTab, isLoading, sshConnected, connectionId, nextConn>>
    /\ UNCHANGED <<sshHost, netVars>>
    /\ UNCHANGED nonToolVars

\* ssh_execute rejects, lines 309-311
executeRejected(c) ==
    /\ c.cmd = "ssh_execute"
    /\ sshOutput' = Append(sshOutput, ErrorLine)
    /\ shellCalls' = shellCalls (-) one(c)
    /\ lastShell' = ShellStep("executeRejected", c)
    /\ UNCHANGED <<toolsOpen, toolsTab, isLoading, sshConnected, sshCommand,
                   connectionId, nextConn>>
    /\ UNCHANGED <<sshHost, netVars>>
    /\ UNCHANGED nonToolVars

NextShell ==
    \/ onToolsClick
    \/ closeTools
    \/ handleSshConnect
    \/ handleSshDisconnect
    \/ \E s \in Commands : setSshCommand(s)
    \/ handleSshExecute
    \/ \E c \in BagToSet(shellCalls) : connectResolved(c)
    \/ \E c \in BagToSet(shellCalls) : connectRejected(c)
    \/ \E c \in BagToSet(shellCalls) : disconnectResolved(c)
    \/ \E c \in BagToSet(shellCalls) : disconnectRejected(c)
    \/ \E c \in BagToSet(shellCalls), o \in Stdouts, e \in Stderrs :
         executeResolved(c, o, e)
    \/ \E c \in BagToSet(shellCalls) : executeRejected(c)

---------------------------------------------------------------------------
(* IT tools panel, diagnostics and HTTP probe: BrowserChrome.tsx,          *)
(* lines 237-247 and 314-376                                               *)

ToolsTabs    == {"ssh", "network", "http"}
NetworkTools == {"ping", "port", "dns"}

Hosts    == {EmptyStr, <<"h">>}                          \* the host field
HttpUrls == {EmptyStr, HttpsScheme, HttpsScheme \o <<"a">>}   \* the URL field
Errors   == {"timeout"}                                  \* what a rejected call carries

DefaultPorts ==
    <<"2","2",",","8","0",",","4","4","3",",","3","3","0","6",",","5","4","3","2">>

digitValue(c) ==
    CASE c = "0" -> 0 [] c = "1" -> 1 [] c = "2" -> 2 [] c = "3" -> 3
      [] c = "4" -> 4 [] c = "5" -> 5 [] c = "6" -> 6 [] c = "7" -> 7
      [] c = "8" -> 8 [] c = "9" -> 9

\* String.prototype.split(','): the pieces between the commas, empty ones
\* included
RECURSIVE split(_, _)
split(s, piece) ==
    IF s = EmptyStr THEN <<piece>>
    ELSE IF Head(s) = "," THEN <<piece>> \o split(Tail(s), EmptyStr)
    ELSE split(Tail(s), Append(piece, Head(s)))

\* the longest prefix of s made of decimal digits
RECURSIVE digitPrefix(_)
digitPrefix(s) ==
    IF s # EmptyStr /\ Head(s) \in Digits THEN <<Head(s)>> \o digitPrefix(Tail(s))
    ELSE EmptyStr

RECURSIVE decimal(_, _)
decimal(ds, acc) ==
    IF ds = EmptyStr THEN acc ELSE decimal(Tail(ds), 10 * acc + digitValue(Head(ds)))

\* parseInt(s) without a radix, for inputs without sign and without a 0x
\* prefix: leading white space is skipped, the longest prefix of digits is
\* read and what follows it is ignored; <<n>> for the number n, << >> for NaN
parseInt(s) ==
    LET ds == digitPrefix(trimStart(s))
    IN  IF ds = EmptyStr THEN << >> ELSE <<decimal(ds, 0)>>

RECURSIVE concat(_)
concat(ss) == IF ss = << >> THEN << >> ELSE Head(ss) \o concat(Tail(ss))

\* portRange.split(',').map(p => parseInt(p.trim())).filter(p => !isNaN(p)),
\* line 329
parsePorts(s) ==
    LET pieces == split(s, EmptyStr)
    IN  concat([i \in 1..Len(pieces) |-> parseInt(trim(pieces[i]))])

netCall(cmd, tool, host, ports, url) ==
    [cmd |-> cmd, tool |-> tool, host |-> host, ports |-> ports, url |-> url]

NoNetCall == netCall("-", "-", EmptyStr, << >>, EmptyStr)

\* networkResult: null, or the object the backend returned; the model keeps
\* which command produced it and for which host
NoResult == [tool |-> "-", host |-> EmptyStr]

resultOf(c) == [tool |-> c.tool, host |-> c.host]

\* httpResult: null, or an HttpResult
NoHttpResult == [url |-> EmptyStr, statusCode |-> 0 - 1, statusText |-> << >>]

\* what http_request returns for the request c
httpResponse(c, code) == [url |-> c.url, statusCode |-> code, statusText |-> <<"OK">>]

StatusCodes == {200, 500}

NetStep(op, c) == [op |-> op, call |-> c, portRange |-> portRange,
                   result |-> networkResult]

InitNet ==
    /\ networkHost = EmptyStr
    /\ networkTool = "ping"
    /\ portRange = DefaultPorts
    /\ networkResult = NoResult
    /\ httpUrl = HttpsScheme
    /\ httpResult = NoHttpResult
    /\ netCalls = EmptyBag
    /\ lastNet = [op |-> "init", call |-> NoNetCall, portRange |-> DefaultPorts,
                  result |-> NoResult]

shellUnchanged == UNCHANGED <<sshConnected, sshOutput, sshCommand, sshHost,
                              connectionId, nextConn, shellCalls, lastShell>>

\* the tab buttons, lines 393-412
setToolsTab(t) ==
    /\ toolsOpen
    /\ toolsTab # t
    /\ toolsTab' = t
    /\ lastNet' = NetStep("tab", NoNetCall)
    /\ UNCHANGED <<networkHost, networkTool, portRange, networkResult, httpUrl,
                   httpResult, netCalls>>
    /\ UNCHANGED <<toolsOpen, isLoading>>
    /\ shellUnchanged
    /\ UNCHANGED nonToolVars

networkShown == toolsOpen /\ toolsTab = "network"

httpShown == toolsOpen /\ toolsTab = "http"

\* the tool selector, lines 490-508
setNetworkTool(t) ==
    /\ networkShown
    /\ networkTool # t
    /\ networkTool' = t
    /\ lastNet' = NetStep("tool", NoNetCall)
    /\ UNCHANGED <<networkHost, portRange, networkResult, httpUrl, httpResult, netCalls>>
    /\ UNCHANGED <<toolsOpen, toolsTab, isLoading>>
    /\ shellUnchanged
    /\ UNCHANGED nonToolVars

\* the host field, lines 512-518
setNetworkHost(h) ==
    /\ networkShown
    /\ networkHost # h
    /\ networkHost' = h
    /\ lastNet' = NetStep("host", NoNetCall)
    /\ UNCHANGED <<networkTool, portRange, networkResult, httpUrl, httpResult, netCalls>>
    /\ UNCHANGED <<toolsOpen, toolsTab, isLoading>>
    /\ shellUnchanged
    /\ UNCHANGED nonToolVars

\* the ports field, rendered for the port scan, lines 520-528
setPortRange(s) ==
    /\ networkShown
    /\ networkTool = "port"
    /\ portRange # s
    /\ portRange' = s
    /\ lastNet' = [NetStep("ports", NoNetCall) EXCEPT !.portRange = s]
    /\ UNCHANGED <<networkHost, networkTool, networkResult, httpUrl, httpResult, netCalls>>
    /\ UNCHANGED <<toolsOpen, toolsTab, isLoading>>
    /\ shellUnchanged
    /\ UNCHANGED nonToolVars

\* the Run button is rendered on the network tab and disabled while
\* isLoading or without a host, line 537
runEnabled == networkShown /\ ~isLoading /\ networkHost # EmptyStr

\* a run dispatches c and sets isLoading (lines 316, 328, 345)
submitRun(c, op) ==
    /\ isLoading' = TRUE
    /\ netCalls' = netCalls (+) one(c)
    /\ lastNet' = NetStep(op, c)
    /\ UNCHANGED <<networkHost, networkTool, portRange, networkResult, httpUrl, httpResult>>
    /\ UNCHANGED <<toolsOpen, toolsTab>>
    /\ shellUnchanged
    /\ UNCHANGED nonToolVars

\* a variant of handlePing that leaves isLoading alone
handlePingNoLoading ==
    /\ runEnabled
    /\ networkTool = "ping"
    /\ netCalls' = netCalls (+) one(netCall("network_ping", "ping", networkHost, << >>, EmptyStr))
    /\ lastNet' = NetStep("ping", netCall("network_ping", "ping", networkHost, << >>, EmptyStr))
    /\ UNCHANGED <<networkHost, networkTool, portRange, networkResult, httpUrl, httpResult>>
    /\ UNCHANGED <<toolsOpen, toolsTab, isLoading>>
    /\ shellUnchanged
    /\ UNCHANGED nonToolVars

\* Run with the ping tool selected: handlePing up to its await, lines 314-317
handlePing ==
    /\ runEnabled
    /\ networkTool = "ping"
    /\ submitRun(netCall("network_ping", "ping", networkHost, << >>, EmptyStr), "ping")

\* Run with the port scan selected: handlePortScan up to its await,
\* lines 326-334
handlePortScan ==
    /\ runEnabled
    /\ networkTool = "port"
    /\ submitRun(netCall("network_port_scan", "port", networkHost,
                         parsePorts(portRange), EmptyStr), "portScan")

\* Run with the DNS tool selected: handleDnsLookup up to its await,
\* lines 343-346
handleDnsLookup ==
    /\ runEnabled
    /\ networkTool = "dns"
    /\ submitRun(netCall("network_dns_lookup", "dns", networkHost, << >>, EmptyStr), "dns")

\* a diagnostic call resolves: setNetworkResult and the finally,
\* lines 318, 335, 347 and 321-323
runResolved(c) ==
    /\ c.cmd \in {"network_ping", "network_port_scan", "network_dns_lookup"}
    /\ networkResult' = resultOf(c)
    /\ isLoading' = FALSE
    /\ netCalls' = netCalls (-) one(c)
    /\ lastNet' = NetStep("runResolved", c)
    /\ UNCHANGED <<networkHost, networkTool, portRange, httpUrl, httpResult>>
    /\ UNCHANGED <<toolsOpen, toolsTab>>
    /\ shellUnchanged
    /\ UNCHANGED nonToolVars

\* a diagnostic call rejects: the catch logs, the finally clears isLoading,
\* lines 319-323
runRejected(c) ==
    /\ c.cmd \in {"network_ping", "network_port_scan", "network_dns_lookup"}
    /\ isLoading' = FALSE
    /\ netCalls' = netCalls (-) one(c)
    /\ lastNet' = NetStep("runRejected", c)
    /\ UNCHANGED <<networkHost, networkTool, portRange, networkResult, httpUrl, httpResult>>
    /\ UNCHANGED <<toolsOpen, toolsTab>>
    /\ shellUnchanged
    /\ UNCHANGED nonToolVars

\* which view renders networkResult, lines 543-583: the ping and the DNS
\* view render whatever the result is, the port view renders only arrays
presentedAs ==
    IF networkResult = NoResult THEN "-"
    ELSE IF networkTool = "port" /\ networkResult.tool # "port" THEN "-"
    ELSE networkTool

\* the URL field, lines 603-609
setHttpUrl(u) ==
    /\ httpShown
    /\ httpUrl # u
    /\ httpUrl' = u
    /\ lastNet' = NetStep("url", NoNetCall)
    /\ UNCHANGED <<networkHost, networkTool, portRange, networkResult, httpResult, netCalls>>
    /\ UNCHANGED <<toolsOpen, toolsTab, isLoading>>
    /\ shellUnchanged
    /\ UNCHANGED nonToolVars

\* handleHttpRequest up to its await, lines 355-363; the button is disabled
\* while isLoading or without a URL, line 615
handleHttpRequest ==
    /\ httpShown
    /\ ~isLoading
    /\ httpUrl # EmptyStr
    /\ submitRun(netCall("http_request", "http", EmptyStr, << >>, httpUrl), "http")

\* http_request resolves, lines 364 and 373-375
httpResolved(c, code) ==
    /\ c.cmd = "http_request"
    /\ httpResult' = httpResponse(c, code)
    /\ isLoading' = FALSE
    /\ netCalls' = netCalls (-) one(c)
    /\ lastNet' = NetStep("httpResolved", c)
    /\ UNCHANGED <<networkHost, networkTool, portRange, networkResult, httpUrl>>
    /\ UNCHANGED <<toolsOpen, toolsTab>>
    /\ shellUnchanged
    /\ UNCHANGED nonToolVars

\* a variant of the catch that reads the URL field when the call rejects
syntheticResultOfField(c, error) ==
    [url |-> httpUrl, statusCode |-> 0, statusText |-> <<"Error: ", error>>]

\* the result built by the catch, lines 366-372: the url is the one the
\* handler was called with
syntheticResult(c, error) ==
    [url |-> c.url, statusCode |-> 0, statusText |-> <<"Error: ", error>>]

\* http_request rejects, lines 365-375
httpRejected(c, error) ==
    /\ c.cmd = "http_request"
    /\ httpResult' = syntheticResult(c, error)
    /\ isLoading' = FALSE
    /\ netCalls' = netCalls (-) one(c)
    /\ lastNet' = NetStep("httpRejected", c)
    /\ UNCHANGED <<networkHost, networkTool, portRange, networkResult, httpUrl>>
    /\ UNCHANGED <<toolsOpen, toolsTab>>
    /\ shellUnchanged
    /\ UNCHANGED nonToolVars

\* every string of at most MaxPortLen characters over the alphabet
PortAlphabet == {"2", "8", "a", " ", ","}

RECURSIVE stringsUpTo(_)
stringsUpTo(n) ==
    IF n = 0 THEN {EmptyStr}
    ELSE LET shorter == stringsUpTo(n - 1)
         IN  shorter \cup {Append(s, c) : s \in shorter, c \in PortAlphabet}

PortInputs == stringsUpTo(MaxPortLen)

\* the diagnostics, the HTTP probe and the shell connection, which share
\* isLoading
NextNet ==
    \/ onToolsClick
    \/ closeTools
    \/ \E t \in ToolsTabs : setToolsTab(t)
    \/ \E t \in NetworkTools : setNetworkTool(t)
    \/ \E h \in Hosts : setNetworkHost(h)
    \/ handlePing
    \/ handlePortScan
    \/ handleDnsLookup
    \/ \E c \in BagToSet(netCalls) : runResolved(c)
    \/ \E c \in BagToSet(netCalls) : runRejected(c)
    \/ \E u \in HttpUrls : setHttpUrl(u)
    \/ handleHttpRequest
    \/ \E c \in BagToSet(netCalls), code \in StatusCodes : httpResolved(c, code)
    \/ \E c \in BagToSet(netCalls), e \in Errors : httpRejected(c, e)
    \/ handleSshConnect
    \/ \E c \in BagToSet(shellCalls) : connectResolved(c)
    \/ \E c \in BagToSet(shellCalls) : connectRejected(c)

\* the port scan with every input of the ports field, the field being
\* edited between two runs
NextPortScan ==
    \/ onToolsClick
    \/ setToolsTab("network")
    \/ setNetworkTool("port")
    \/ setNetworkHost(<<"h">>)
    \/ \E s \in PortInputs : ~isLoading /\ setPortRange(s)
    \/ handlePortScan
    \/ \E c \in BagToSet(netCalls) : runResolved(c)
    \/ \E c \in BagToSet(netCalls) : runRejected(c)

---------------------------------------------------------------------------
(* Download panel: SettingsPanel.tsx, lines 1256-1561 *)

DlTabs     == {"downloads", "videos"}
ItemStates == {"Downloading", "Paused", "Completed"}
UrlInputs  == {EmptyStr, <<"u">>}   \* the URL field

\* what get_downloads can return: the lists of at most MaxItems downloads,
\* the download at position i having the id i
RECURSIVE listsUpTo(_)
listsUpTo(n) ==
    IF n = 0 THEN {<< >>}
    ELSE LET shorter == listsUpTo(n - 1)
         IN  shorter \cup {Append(l, [id |-> Len(l) + 1, state |-> s]) :
                             l \in {x \in shorter : Len(x) = n - 1}, s \in ItemStates}

Snapshots == listsUpTo(MaxItems)

\* what get_all_detected_videos can return
VideoLists == {<< >>, <<[id |-> 1]>>}

NoDir   == ""
SomeDir == "/downloads"

dlCall(cmd, id, url) == [cmd |-> cmd, id |-> id, url |-> url]

getDownloads   == dlCall("get_downloads", EmptyId, EmptyStr)
getVideos      == dlCall("get_all_detected_videos", EmptyId, EmptyStr)
getDirectory   == dlCall("get_download_directory", EmptyId, EmptyStr)

PollCommands == {"get_downloads", "get_all_detected_videos"}

\* the calls a call in flight stands for: itself and those its
\* continuation dispatches
dlWeight(cmd) ==
    CASE cmd \in {"start_download", "download_video"} -> 3
      [] cmd \in {"pause_download", "resume_download", "cancel_download",
                  "clear_completed_downloads"} -> 2
      [] OTHER -> 1

RECURSIVE dlLoad(_)
dlLoad(bag) ==
    IF bag = EmptyBag THEN 0
    ELSE LET c == CHOOSE x \in BagToSet(bag) : TRUE
         IN  dlWeight(c.cmd) + dlLoad(bag (-) one(c))

dlRoom(n) == dlLoad(dlCalls) + n <= MaxDlCalls

\* the last step of the download panel: the commands it dispatched, the
\* call it settled, the list the call returned (for a call that creates a
\* job, the job alone) and, for a rejected call, the mirrors the step
\* started from
NoDlCall == dlCall("", EmptyId, EmptyStr)
NoMirrors == << << >>, << >> >>

DlStep(op, sent) ==
    [op |-> op, sent |-> sent, call |-> NoDlCall, list |-> << >>, before |-> NoMirrors]

DlSettled(op, sent, c, list) ==
    [op |-> op, sent |-> sent, call |-> c, list |-> list, before |-> NoMirrors]

DlFailed(c) ==
    [DlSettled("rejected", {}, c, << >>) EXCEPT !.before = <<downloads, detectedVideos>>]

InitDownloads ==
    /\ dlOpen = FALSE
    /\ dlTab = "downloads"
    /\ downloads = << >>
    /\ detectedVideos = << >>
    /\ downloadDir = NoDir
    /\ urlInput = EmptyStr
    /\ pollTimers = 0
    /\ nextJob = 1
    /\ dlCalls = EmptyBag
    /\ lastDl = DlStep("init", {})

\* isOpen becomes true: the effect of lines 1263-1277 loads both lists and
\* the directory and starts the interval
openDownloads ==
    /\ ~dlOpen
    /\ dlRoom(3)
    /\ dlOpen' = TRUE
    /\ dlCalls' = dlCalls (+) one(getDownloads) (+) one(getVideos) (+) one(getDirectory)
    /\ pollTimers' = pollTimers + 1
    /\ lastDl' = DlStep("open", {"get_downloads", "get_all_detected_videos",
                                 "get_download_directory"})
    /\ UNCHANGED <<dlTab, downloads, detectedVideos, downloadDir, urlInput, nextJob>>
    /\ UNCHANGED nonDlVars

\* the close button, line 1379: isOpen becomes false and the cleanup of the
\* effect clears the interval, line 1275
closeDownloads ==
    /\ dlOpen
    /\ dlOpen' = FALSE
    /\ pollTimers' = pollTimers - 1
    /\ lastDl' = DlStep("close", {})
    /\ UNCHANGED <<dlTab, downloads, detectedVideos, downloadDir, urlInput,
                   nextJob, dlCalls>>
    /\ UNCHANGED nonDlVars

\* a live interval fires, lines 1270-1273
pollTick ==
    /\ pollTimers > 0
    /\ dlRoom(2)
    /\ dlCalls' = dlCalls (+) one(getDownloads) (+) one(getVideos)
    /\ lastDl' = DlStep("tick", PollCommands)
    /\ UNCHANGED <<dlOpen, dlTab, downloads, detectedVideos, downloadDir, urlInput,
                   pollTimers, nextJob>>
    /\ UNCHANGED nonDlVars

\* a loadDownloads that keeps the downloads the returned list does not name
downloadsLoadedMerging(c, list) ==
    LET named == { list[i].id : i \in 1..Len(list) }
        kept(d) == d.id \notin named
    IN
    /\ c.cmd = "get_downloads"
    /\ downloads' = list \o SelectSeq(downloads, kept)
    /\ dlCalls' = dlCalls (-) one(c)
    /\ lastDl' = DlSettled("downloadsLoaded", {}, c, list)
    /\ UNCHANGED <<dlOpen, dlTab, detectedVideos, downloadDir, urlInput,
                   pollTimers, nextJob>>
    /\ UNCHANGED nonDlVars

\* get_downloads resolves: loadDownloads, lines 1281-1282
downloadsLoaded(c, list) ==
    /\ c.cmd = "get_downloads"
    /\ downloads' = list
    /\ dlCalls' = dlCalls (-) one(c)
    /\ lastDl' = DlSettled("downloadsLoaded", {}, c, list)
    /\ UNCHANGED <<dlOpen, dlTab, detectedVideos, downloadDir, urlInput,
                   pollTimers, nextJob>>
    /\ UNCHANGED nonDlVars

\* get_all_detected_videos resolves: loadDetectedVideos, lines 1290-1291
videosLoaded(c, list) ==
    /\ c.cmd = "get_all_detected_videos"
    /\ detectedVideos' = list
    /\ dlCalls' = dlCalls (-) one(c)
    /\ lastDl' = DlSettled("videosLoaded", {}, c, list)
    /\ UNCHANGED <<dlOpen, dlTab, downloads, downloadDir, urlInput,
                   pollTimers, nextJob>>
    /\ UNCHANGED nonDlVars

\* get_download_directory resolves, line 1267
directoryLoaded(c) ==
    /\ c.cmd = "get_download_directory"
    /\ downloadDir' = SomeDir
    /\ dlCalls' = dlCalls (-) one(c)
    /\ lastDl' = DlStep("directoryLoaded", {})
    /\ UNCHANGED <<dlOpen, dlTab, downloads, detectedVideos, urlInput,
                   pollTimers, nextJob>>
    /\ UNCHANGED nonDlVars

\* a call whose rejection is only logged or not handled: the catches of
\* lines 1283-1285, 1292-1294, 1303-1305 and 1327-1329, the .catch of lines
\* 1301 and 1324, and the promise chains without a catch of lines 1267 and
\* 1315-1318
dlRejected(c) ==
    /\ dlCalls' = dlCalls (-) one(c)
    /\ lastDl' = DlFailed(c)
    /\ UNCHANGED <<dlOpen, dlTab, downloads, detectedVideos, downloadDir, urlInput,
                   pollTimers, nextJob>>
    /\ UNCHANGED nonDlVars

\* the tab buttons, lines 1387-1409
setDlTab(t) ==
    /\ dlOpen
    /\ dlTab # t
    /\ dlTab' = t
    /\ lastDl' = DlStep("tab", {})
    /\ UNCHANGED <<dlOpen, downloads, detectedVideos, downloadDir, urlInput,
                   pollTimers, nextJob, dlCalls>>
    /\ UNCHANGED nonDlVars

downloadsShown == dlOpen /\ dlTab = "downloads"

\* the URL field, lines 1417-1421
setUrlInput(u) ==
    /\ downloadsShown
    /\ urlInput # u
    /\ urlInput' = u
    /\ lastDl' = DlStep("url", {})
    /\ UNCHANGED <<dlOpen, dlTab, downloads, detectedVideos, downloadDir,
                   pollTimers, nextJob, dlCalls>>
    /\ UNCHANGED nonDlVars

\* handleUrlDownload, lines 1308-1313, with startDownload up to its await,
\* lines 1297-1299
handleUrlDownload ==
    /\ downloadsShown
    /\ trim(urlInput) # EmptyStr
    /\ nextJob <= MaxJobs
    /\ dlRoom(dlWeight("start_download"))
    /\ dlCalls' = dlCalls (+) one(dlCall("start_download", EmptyId, trim(urlInput)))
    /\ urlInput' = EmptyStr
    /\ lastDl' = DlStep("startDownload", {"start_download"})
    /\ UNCHANGED <<dlOpen, dlTab, downloads, detectedVideos, downloadDir,
                   pollTimers, nextJob>>
    /\ UNCHANGED nonDlVars

\* a startDownload that passes execute_download no id
startResolvedWithoutId(c) ==
    /\ c.cmd = "start_download"
    /\ dlCalls' = (dlCalls (-) one(c))
                     (+) one(dlCall("execute_download", EmptyId, EmptyStr))
                     (+) one(getDownloads)
    /\ nextJob' = nextJob + 1
    /\ lastDl' = DlSettled("startResolved", {"execute_download", "get_downloads"}, c,
                           <<[id |-> nextJob]>>)
    /\ UNCHANGED <<dlOpen, dlTab, downloads, detectedVideos, downloadDir, urlInput,
                   pollTimers>>
    /\ UNCHANGED nonDlVars

\* start_download resolves with the new job: execute_download and
\* loadDownloads are called, lines 1299-1302
startResolved(c) ==
    /\ c.cmd = "start_download"
    /\ dlCalls' = (dlCalls (-) one(c))
                     (+) one(dlCall("execute_download", nextJob, EmptyStr))
                     (+) one(getDownloads)
    /\ nextJob' = nextJob + 1
    /\ lastDl' = DlSettled("startResolved", {"execute_download", "get_downloads"}, c,
                           <<[id |-> nextJob]>>)
    /\ UNCHANGED <<dlOpen, dlTab, downloads, detectedVideos, downloadDir, urlInput,
                   pollTimers>>
    /\ UNCHANGED nonDlVars

\* execute_download resolves, lines 1301 and 1324: nothing follows
executeSettled(c) ==
    /\ c.cmd = "execute_download"
    /\ dlCalls' = dlCalls (-) one(c)
    /\ lastDl' = DlSettled("executed", {}, c, << >>)
    /\ UNCHANGED <<dlOpen, dlTab, downloads, detectedVideos, downloadDir, urlInput,
                   pollTimers, nextJob>>
    /\ UNCHANGED nonDlVars

\* the buttons of a download, lines 1485-1493, and Clear Completed, lines
\* 1505-1506: which command the list offers for the download d
offered(cmd, d) ==
    CASE cmd = "pause_download"  -> d.state = "Downloading"
      [] cmd = "resume_download" -> d.state = "Paused"
      [] cmd = "cancel_download" -> d.state \notin {"Completed", "Failed"}
      [] cmd = "clear_completed_downloads" -> d.state = "Completed"

ItemCommands == {"pause_download", "resume_download", "cancel_download"}

\* pauseDownload, resumeDownload and cancelDownload up to the call,
\* lines 1315-1317
itemCommand(cmd, i) ==
    /\ downloadsShown
    /\ i \in 1..Len(downloads)
    /\ offered(cmd, downloads[i])
    /\ dlRoom(dlWeight(cmd))
    /\ dlCalls' = dlCalls (+) one(dlCall(cmd, downloads[i].id, EmptyStr))
    /\ lastDl' = DlStep("command", {cmd})
    /\ UNCHANGED <<dlOpen, dlTab, downloads, detectedVideos, downloadDir, urlInput,
                   pollTimers, nextJob>>
    /\ UNCHANGED nonDlVars

\* clearCompleted up to the call, line 1318
clearCompleted ==
    /\ downloadsShown
    /\ \E i \in 1..Len(downloads) : offered("clear_completed_downloads", downloads[i])
    /\ dlRoom(dlWeight("clear_completed_downloads"))
    /\ dlCalls' = dlCalls (+) one(dlCall("clear_completed_downloads", EmptyId, EmptyStr))
    /\ lastDl' = DlStep("command", {"clear_completed_downloads"})
    /\ UNCHANGED <<dlOpen, dlTab, downloads, detectedVideos, downloadDir, urlInput,
                   pollTimers, nextJob>>
    /\ UNCHANGED nonDlVars

\* a command whose refresh is left to the next tick of the interval
commandResolvedDeferred(c) ==
    /\ c.cmd \in ItemCommands \cup {"clear_completed_downloads"}
    /\ dlCalls' = dlCalls (-) one(c)
    /\ lastDl' = DlSettled("commandResolved", {}, c, << >>)
    /\ UNCHANGED <<dlOpen, dlTab, downloads, detectedVideos, downloadDir, urlInput,
                   pollTimers, nextJob>>
    /\ UNCHANGED nonDlVars

\* a command resolves: .then(loadDownloads), lines 1315-1318
commandResolved(c) ==
    /\ c.cmd \in ItemCommands \cup {"clear_completed_downloads"}
    /\ dlCalls' = (dlCalls (-) one(c)) (+) one(getDownloads)
    /\ lastDl' = DlSettled("commandResolved", {"get_downloads"}, c, << >>)
    /\ UNCHANGED <<dlOpen, dlTab, downloads, detectedVideos, downloadDir, urlInput,
                   pollTimers, nextJob>>
    /\ UNCHANGED nonDlVars

\* downloadVideo up to its await, lines 1320-1323
downloadVideo(i) ==
    /\ dlOpen
    /\ dlTab = "videos"
    /\ i \in 1..Len(detectedVideos)
    /\ nextJob <= MaxJobs
    /\ dlRoom(dlWeight("download_video"))
    /\ dlCalls' = dlCalls (+) one(dlCall("download_video", detectedVideos[i].id, EmptyStr))
    /\ lastDl' = DlStep("downloadVideo", {"download_video"})
    /\ UNCHANGED <<dlOpen, dlTab, downloads, detectedVideos, downloadDir, urlInput,
                   pollTimers, nextJob>>
    /\ UNCHANGED nonDlVars

\* download_video resolves with the new job, lines 1323-1326
videoStartResolved(c) ==
    /\ c.cmd = "download_video"
    /\ dlCalls' = (dlCalls (-) one(c))
                     (+) one(dlCall("execute_download", nextJob, EmptyStr))
                     (+) one(getDownloads)
    /\ nextJob' = nextJob + 1
    /\ dlTab' = "downloads"
    /\ lastDl' = DlSettled("videoStartResolved", {"execute_download", "get_downloads"}, c,
                           <<[id |-> nextJob]>>)
    /\ UNCHANGED <<dlOpen, downloads, detectedVideos, downloadDir, urlInput, pollTimers>>
    /\ UNCHANGED nonDlVars

NextDownloads ==
    \/ openDownloads
    \/ closeDownloads
    \/ pollTick
    \/ \E c \in BagToSet(dlCalls), l \in Snapshots : downloadsLoaded(c, l)
    \/ \E c \in BagToSet(dlCalls), l \in VideoLists : videosLoaded(c, l)
    \/ \E c \in BagToSet(dlCalls) : directoryLoaded(c)
    \/ \E c \in BagToSet(dlCalls) : dlRejected(c)
    \/ \E t \in DlTabs : setDlTab(t)
    \/ \E u \in UrlInputs : setUrlInput(u)
    \/ handleUrlDownload
    \/ \E c \in BagToSet(dlCalls) : startResolved(c)
    \/ \E c \in BagToSet(dlCalls) : executeSettled(c)
    \/ \E cmd \in ItemCommands, i \in 1..MaxItems : itemCommand(cmd, i)
    \/ clearCompleted
    \/ \E c \in BagToSet(dlCalls) : commandResolved(c)
    \/ \E i \in 1..Len(detectedVideos) : downloadVideo(i)
    \/ \E c \in BagToSet(dlCalls) : videoStartResolved(c)

---------------------------------------------------------------------------
(* Download manager: SettingsPanel.tsx, lines 925-1223, the component that *)
(* App.tsx renders under downloadsOpen                                     *)

\* String.prototype.includes with a search string
includesStr(s, sub) ==
    \E i \in 1..(Len(s) + 1) :
        /\ i + Len(sub) - 1 <= Len(s)
        /\ SubSeq(s, i, i + Len(sub) - 1) = sub

ThreatText  == <<"t","h","r","e","a","t">>
NullError   == << >>                       \* error: null or absent; d.error?.includes is then undefined
ThreatError == <<"a"," ">> \o ThreatText
IoError     == <<"i","o">>

\* the items get_downloads returns, by the fields loadDownloads reads
ManagerItems ==
    { [state |-> s, error |-> NullError] :
          s \in {"Pending", "Downloading", "Completed", "Safe"} }
      \cup { [state |-> "Failed", error |-> x] : x \in {ThreatError, IoError} }

RECURSIVE itemLists(_)
itemLists(n) ==
    IF n = 0 THEN { << >> }
    ELSE LET shorter == itemLists(n - 1) IN
         shorter \cup { Append(l, d) : l \in shorter, d \in ManagerItems }

ManagerSnapshots == itemLists(MaxEntries)

\* the lists returned where the manager runs beside the download panel
PollSnapshots == { << >>, <<[state |-> "Pending", error |-> NullError]>> }

\* lines 949-954: the item the mirror holds for a returned item
mirrorItem(d) == [state |-> d.state, error |-> d.error, status |-> d.state]

mirrorOf(data) == [i \in 1..Len(data) |-> mirrorItem(data[i])]

isScanned(d)  == d.state = "Completed" \/ d.state = "Safe"
isThreat(d)   == d.state = "Failed" /\ includesStr(d.error, ThreatText)
isPending(d)  == d.state = "Pending"
isProgress(d) == d.state = "Downloading"

\* a statsOf that counts the completed items only as scanned
statsOfCompletedOnly(data) ==
    LET completed(d) == d.state = "Completed" IN
    [ total_downloads |-> Len(data),
      total_scanned   |-> Len(SelectSeq(data, completed)),
      threats_blocked |-> Len(SelectSeq(data, isThreat)),
      pending         |-> Len(SelectSeq(data, isPending)),
      in_progress     |-> Len(SelectSeq(data, isProgress)) ]

\* lines 957-963: the counters of a returned list
statsOf(data) ==
    [ total_downloads |-> Len(data),
      total_scanned   |-> Len(SelectSeq(data, isScanned)),
      threats_blocked |-> Len(SelectSeq(data, isThreat)),
      pending         |-> Len(SelectSeq(data, isPending)),
      in_progress     |-> Len(SelectSeq(data, isProgress)) ]

\* lines 928-934
zeroStats ==
    [ total_downloads |-> 0, total_scanned |-> 0, threats_blocked |-> 0,
      pending |-> 0, in_progress |-> 0 ]

\* history records: the step, the list a get_downloads returned, the
\* pending counter the step started from and, for a rejected get_downloads,
\* the mirror and the counters it started from
ManagerStep(op, data) ==
    [op |-> op, data |-> data, pending |-> stats.pending,
     before |-> << >>, stats |-> zeroStats, overtaken |-> FALSE]

ManagerFailed ==
    [ManagerStep("rejected", << >>) EXCEPT !.before = managerDownloads, !.stats = stats]

InitManager ==
    /\ downloadsOpen = FALSE
    /\ managerDownloads = << >>
    /\ stats = zeroStats
    /\ managerTimers = 0
    /\ managerCalls = 0
    /\ managerOrder = << >>
    /\ lastManager = [op |-> "init", data |-> << >>, pending |-> 0,
                      before |-> << >>, stats |-> zeroStats, overtaken |-> FALSE]

\* App.tsx line 183 with the effect of lines 936-943: the first load is
\* dispatched and the interval is started
onDownloadsClick ==
    /\ ~downloadsOpen
    /\ managerCalls < MaxMgrCalls
    /\ downloadsOpen' = TRUE
    /\ managerCalls' = managerCalls + 1
    /\ managerOrder' = Append(managerOrder, FALSE)
    /\ managerTimers' = managerTimers + 1
    /\ lastManager' = ManagerStep("open", << >>)
    /\ UNCHANGED <<managerDownloads, stats>>
    /\ UNCHANGED nonMgrVars

\* App.tsx line 315 with the cleanup of line 941
closeManager ==
    /\ downloadsOpen
    /\ downloadsOpen' = FALSE
    /\ managerTimers' = 0
    /\ lastManager' = ManagerStep("close", << >>)
    /\ UNCHANGED <<managerDownloads, stats, managerCalls, managerOrder>>
    /\ UNCHANGED nonMgrVars

\* line 940: the interval fires
managerTick ==
    /\ managerTimers > 0
    /\ managerCalls < MaxMgrCalls
    /\ managerCalls' = managerCalls + 1
    /\ managerOrder' = Append(managerOrder, FALSE)
    /\ lastManager' = ManagerStep("tick", << >>)
    /\ UNCHANGED <<downloadsOpen, managerDownloads, stats, managerTimers>>
    /\ UNCHANGED nonMgrVars

\* the calls left in flight when the i-th one settles; when its response is
\* applied, the calls dispatched before it are marked
settledAt(order, i, applied) ==
    [j \in 1..(Len(order) - 1) |->
        IF j < i THEN (applied \/ order[j]) ELSE order[j + 1]]

\* lines 948-963: any one of the get_downloads calls in flight resolved with
\* data
managerLoaded(data) ==
    /\ managerCalls > 0
    /\ managerCalls' = managerCalls - 1
    /\ \E i \in 1..Len(managerOrder) :
          /\ managerOrder' = settledAt(managerOrder, i, TRUE)
          /\ lastManager' = [ManagerStep("loaded", data) EXCEPT
                                !.overtaken = managerOrder[i]]
    /\ managerDownloads' = mirrorOf(data)
    /\ stats' = statsOf(data)
    /\ UNCHANGED <<downloadsOpen, managerTimers>>
    /\ UNCHANGED nonMgrVars

\* lines 964-966: get_downloads rejected
managerRejected ==
    /\ managerCalls > 0
    /\ managerCalls' = managerCalls - 1
    /\ \E i \in 1..Len(managerOrder) :
          managerOrder' = settledAt(managerOrder, i, FALSE)
    /\ lastManager' = ManagerFailed
    /\ UNCHANGED <<downloadsOpen, managerDownloads, stats, managerTimers>>
    /\ UNCHANGED nonMgrVars

NextManager ==
    \/ managerCalls < MaxPolls /\ onDownloadsClick
    \/ closeManager
    \/ managerCalls < MaxPolls /\ managerTick
    \/ \E data \in ManagerSnapshots : managerLoaded(data)
    \/ managerRejected

---------------------------------------------------------------------------
(* Secure keyboard: VirtualKeyboard, BrowserChrome.tsx, lines 671-800 *)

\* the keys of a layout, by the fields of KeyInfo (types.ts, lines 77-82)
\* that the component reads
keyInfo(key, keyType) == [key |-> key, keyType |-> keyType]

KeyInfos ==
    { keyInfo(<<"a">>, "Character"),
      keyInfo(<<"S","h","i","f","t">>, "Shift"),
      keyInfo(<<"C","a","p","s">>, "CapsLock"),
      keyInfo(<<"B","a","c","k">>, "Backspace"),
      keyInfo(<<"E","n","t","e","r">>, "Enter"),
      keyInfo(<<" ">>, "Space") }

NoKey == keyInfo(EmptyStr, "")

\* String.fromCharCode and charCodeAt on the characters of the layout
fromCharCode(n) == CASE n = 97 -> "a" [] n = 65 -> "A" [] OTHER -> "?"
charCode(c)     == CASE c = "a" -> 97 [] c = "A" -> 65 [] OTHER -> 63
toUpperCase(c)  == IF c = "a" THEN "A" ELSE c

keyCall(cmd, key, shift, caps, flag) ==
    [cmd |-> cmd, key |-> key, isShift |-> shift, isCaps |-> caps, shuffled |-> flag]

\* what process_virtual_key returns: the tag, the Character field when the
\* value has one, the modifier and its new state
outcome(type, hasCharacter, code, modifier, active) ==
    [type |-> type, hasCharacter |-> hasCharacter, Character |-> code,
     modifier |-> modifier, active |-> active]

plain(type) == outcome(type, FALSE, 0, "", FALSE)

NoOutcome == plain("")

\* the outcomes the backend can give the call c: a key is answered by its
\* keyType; a character key gives the character for the modifiers sent,
\* carried in a Character field or not
outcomes(c) ==
    LET typed == IF c.isShift # c.isCaps
                   THEN toUpperCase(c.key.key[1]) ELSE c.key.key[1] IN
    CASE c.key.keyType = "Character" ->
             { outcome("Character", FALSE, 0, "", FALSE),
               outcome("Character", TRUE, charCode(typed), "", FALSE) }
      [] c.key.keyType = "Shift" ->
             { outcome("ModifierToggled", FALSE, 0, "Shift", b) : b \in BOOLEAN }
      [] c.key.keyType = "CapsLock" ->
             { outcome("ModifierToggled", FALSE, 0, "CapsLock", b) : b \in BOOLEAN }
      [] OTHER -> { plain(c.key.keyType) }

\* history records: the step, the call it settled with the outcome, the
\* buffer and the modifiers it started from, and what it passed to onInput
KeyStep(op, c, result, forwarded) ==
    [op |-> op, call |-> c, result |-> result, forwarded |-> forwarded,
     buffer |-> inputValue, isShift |-> isShift, isCaps |-> isCaps]

NoKeyCall == keyCall("", NoKey, FALSE, FALSE, FALSE)

InitKeyboard ==
    /\ keyboardOpen = FALSE
    /\ layout = "none"
    /\ shuffled = FALSE
    /\ isShift = FALSE
    /\ isCaps = FALSE
    /\ inputValue = EmptyStr
    /\ keyCalls = EmptyBag
    /\ lastKey = [op |-> "init", call |-> NoKeyCall, result |-> NoOutcome,
                  forwarded |-> << >>, buffer |-> EmptyStr,
                  isShift |-> FALSE, isCaps |-> FALSE]

keyRoom == BagCardinality(keyCalls) < MaxKeyCalls

layoutCall(flag) == keyCall("get_virtual_keyboard_layout", NoKey, FALSE, FALSE, flag)

\* App.tsx line 305 with the effect of lines 678-682: the layout is loaded
onShowKeyboard ==
    /\ ~keyboardOpen
    /\ keyRoom
    /\ keyboardOpen' = TRUE
    /\ keyCalls' = keyCalls (+) one(layoutCall(shuffled))
    /\ lastKey' = KeyStep("open", NoKeyCall, NoOutcome, << >>)
    /\ UNCHANGED <<layout, shuffled, isShift, isCaps, inputValue>>
    /\ UNCHANGED nonKbVars

keysShown == keyboardOpen /\ layout # "none"

\* the close button, line 741 with App.tsx line 320
closeKeyboard ==
    /\ keysShown
    /\ keyboardOpen' = FALSE
    /\ lastKey' = KeyStep("close", NoKeyCall, NoOutcome, << >>)
    /\ UNCHANGED <<layout, shuffled, isShift, isCaps, inputValue, keyCalls>>
    /\ UNCHANGED nonKbVars

\* the Shuffle button, line 738, with the effect of lines 678-682
toggleShuffled ==
    /\ keysShown
    /\ keyRoom
    /\ shuffled' = ~shuffled
    /\ keyCalls' = keyCalls (+) one(layoutCall(~shuffled))
    /\ lastKey' = KeyStep("shuffle", NoKeyCall, NoOutcome, << >>)
    /\ UNCHANGED <<keyboardOpen, layout, isShift, isCaps, inputValue>>
    /\ UNCHANGED nonKbVars

\* loadLayout, lines 684-691: resolved
layoutLoaded(c) ==
    /\ BagIn(c, keyCalls) /\ c.cmd = "get_virtual_keyboard_layout"
    /\ keyCalls' = keyCalls (-) one(c)
    /\ layout' = IF c.shuffled THEN "shuffled" ELSE "standard"
    /\ lastKey' = KeyStep("layoutLoaded", c, NoOutcome, << >>)
    /\ UNCHANGED <<keyboardOpen, shuffled, isShift, isCaps, inputValue>>
    /\ UNCHANGED nonKbVars

\* handleKeyPress up to its await, lines 693-699
handleKeyPress(key) ==
    /\ keysShown
    /\ keyRoom
    /\ Len(inputValue) + BagCardinality(keyCalls) < MaxBuffer
    /\ keyCalls' = keyCalls (+) one(keyCall("process_virtual_key", key, isShift, isCaps, FALSE))
    /\ lastKey' = KeyStep("press", NoKeyCall, NoOutcome, << >>)
    /\ UNCHANGED <<keyboardOpen, layout, shuffled, isShift, isCaps, inputValue>>
    /\ UNCHANGED nonKbVars

\* String.prototype.slice(0, -1)
dropLast(s) == IF s = << >> THEN << >> ELSE SubSeq(s, 1, Len(s) - 1)

\* lines 701-717: process_virtual_key resolved with result
keyResolved(c, result) ==
    /\ BagIn(c, keyCalls) /\ c.cmd = "process_virtual_key"
    /\ result \in outcomes(c)
    /\ keyCalls' = keyCalls (-) one(c)
    /\ inputValue' =
         CASE result.type = "Character" ->
                  inputValue \o (IF result.hasCharacter
                                   THEN <<fromCharCode(result.Character)>>
                                   ELSE c.key.key)
           [] result.type = "Backspace" -> dropLast(inputValue)
           [] result.type = "Space" -> Append(inputValue, " ")
           [] OTHER -> inputValue
    /\ isShift' = IF result.type = "ModifierToggled" /\ result.modifier = "Shift"
                    THEN result.active ELSE isShift
    /\ isCaps' = IF result.type = "ModifierToggled" /\ result.modifier = "CapsLock"
                   THEN result.active ELSE isCaps
    /\ lastKey' = KeyStep("key", c, result,
                    CASE result.type = "Character" -> <<c.key.key>>
                      [] result.type = "Backspace" -> <<<<"B","a","c","k","s","p","a","c","e">>>>
                      [] result.type = "Enter" -> <<<<"E","n","t","e","r">>>>
                      [] result.type = "Space" -> <<<<" ">>>>
                      [] OTHER -> << >>)
    /\ UNCHANGED <<keyboardOpen, layout, shuffled>>
    /\ UNCHANGED nonKbVars

\* the catches of lines 688-690 and 718-720: a rejected call is logged
keyRejected(c) ==
    /\ BagIn(c, keyCalls)
    /\ keyCalls' = keyCalls (-) one(c)
    /\ lastKey' = KeyStep("rejected", c, NoOutcome, << >>)
    /\ UNCHANGED <<keyboardOpen, layout, shuffled, isShift, isCaps, inputValue>>
    /\ UNCHANGED nonKbVars

AllOutcomes == UNION { outcomes(keyCall("process_virtual_key", k, s, p, FALSE)) :
                          k \in KeyInfos, s \in BOOLEAN, p \in BOOLEAN }

NextKeyboard ==
    \/ onShowKeyboard
    \/ closeKeyboard
    \/ toggleShuffled
    \/ \E c \in BagToSet(keyCalls) : layoutLoaded(c)
    \/ \E k \in KeyInfos : handleKeyPress(k)
    \/ \E c \in BagToSet(keyCalls), r \in AllOutcomes : keyResolved(c, r)
    \/ \E c \in BagToSet(keyCalls) : keyRejected(c)

---------------------------------------------------------------------------
(* Settings panel, whitelist and identity tabs: SettingsPanel.tsx 280-310 *)

\* the session state of the panel, which the handlers of these tabs leave alone
sessionVars == <<settingsOpen, panelTab, isAuthenticated, isLogsAuthenticated,
                 settingsPasswordError, logsPasswordError, settings>>

Range(s) == { s[i] : i \in 1..Len(s) }

\* texts typed into the domain field
DomainInputs == { EmptyStr, <<" ">>, <<"a">>, <<"b", " ">> }

\* a whitelist call in flight, with the list its handler closed over
wlCall(cmd, domain) == [cmd |-> cmd, domain |-> domain, base |-> whitelist]

without(list, domain) == SelectSeq(list, LAMBDA d : d # domain)

\* the backend's add_to_whitelist and remove_from_whitelist on its stored list
stored(list, c) ==
    IF c.cmd = "remove_from_whitelist" THEN without(list, c.domain)
    ELSE IF c.domain \in Range(list) THEN list
    ELSE Append(list, c.domain)

\* lines 284 and 295: the list the continuation of a resolved call sets,
\* computed from the list of the render in which the handler was called
applied(c) ==
    IF c.cmd = "remove_from_whitelist" THEN without(c.base, c.domain)
    ELSE Append(c.base, c.domain)

\* line 620: typing into the domain field
setNewDomain(text) ==
    /\ settingsOpen /\ isAuthenticated /\ panelTab = "whitelist"
    /\ newDomain # text
    /\ newDomain' = text
    /\ lastPanel' = Other
    /\ UNCHANGED <<backendSettings, panelDetails, whitelist, backendWhitelist, wlCalls>>
    /\ UNCHANGED <<sessionVars, inflightPanel>>
    /\ UNCHANGED nonPanelVars

\* addToWhitelist, lines 280-283: up to the await; a blank field is ignored
addToWhitelist ==
    /\ settingsOpen /\ isAuthenticated /\ panelTab = "whitelist"
    /\ IF trim(newDomain) # EmptyStr
       THEN /\ BagCardinality(wlCalls) < MaxWlCalls
            /\ Len(whitelist) < MaxWhitelist
            /\ wlCalls' = wlCalls (+) one(wlCall("add_to_whitelist", trim(newDomain)))
            /\ lastPanel' = Step("addToWhitelist")
       ELSE /\ lastPanel' = Step("addIgnored")
            /\ UNCHANGED wlCalls
    /\ UNCHANGED <<backendSettings, panelDetails, whitelist, newDomain, backendWhitelist>>
    /\ UNCHANGED <<sessionVars, inflightPanel>>
    /\ UNCHANGED nonPanelVars

\* lines 284-285: add_to_whitelist resolved
addResolved(c) ==
    /\ BagIn(c, wlCalls) /\ c.cmd = "add_to_whitelist"
    /\ wlCalls' = wlCalls (-) one(c)
    /\ backendWhitelist' = stored(backendWhitelist, c)
    /\ whitelist' = applied(c)
    /\ newDomain' = EmptyStr
    /\ lastPanel' = Step("added")
    /\ UNCHANGED <<backendSettings, panelDetails>>
    /\ UNCHANGED <<sessionVars, inflightPanel>>
    /\ UNCHANGED nonPanelVars

\* removeFromWhitelist, lines 292-294: up to the await; every listed domain
\* has its Remove button (lines 642-654)
removeFromWhitelist(domain) ==
    /\ settingsOpen /\ isAuthenticated /\ panelTab = "whitelist"
    /\ domain \in Range(whitelist)
    /\ BagCardinality(wlCalls) < MaxWlCalls
    /\ wlCalls' = wlCalls (+) one(wlCall("remove_from_whitelist", domain))
    /\ lastPanel' = Step("removeFromWhitelist")
    /\ UNCHANGED <<backendSettings, panelDetails, whitelist, newDomain, backendWhitelist>>
    /\ UNCHANGED <<sessionVars, inflightPanel>>
    /\ UNCHANGED nonPanelVars

\* line 295: remove_from_whitelist resolved
removeResolved(c) ==
    /\ BagIn(c, wlCalls) /\ c.cmd = "remove_from_whitelist"
    /\ wlCalls' = wlCalls (-) one(c)
    /\ backendWhitelist' = stored(backendWhitelist, c)
    /\ whitelist' = applied(c)
    /\ lastPanel' = Step("removed")
    /\ UNCHANGED <<backendSettings, panelDetails, newDomain>>
    /\ UNCHANGED <<sessionVars, inflightPanel>>
    /\ UNCHANGED nonPanelVars

\* lines 286-288, 296-298: the call rejected; the catch logs
whitelistRejected(c) ==
    /\ BagIn(c, wlCalls)
    /\ wlCalls' = wlCalls (-) one(c)
    /\ lastPanel' = Step("whitelistRejected")
    /\ UNCHANGED <<backendSettings, panelDetails, whitelist, newDomain, backendWhitelist>>
    /\ UNCHANGED <<sessionVars, inflightPanel>>
    /\ UNCHANGED nonPanelVars

\* the regenerate_identity calls of both views that have not settled
regenerations == regenCalls + CopiesIn(call("regenerate_identity"), inflightPanel)

\* SettingsPanel.regenerateIdentity, lines 301-303: up to the await; the
\* button is on the identity tab (line 581)
panelRegenerate ==
    /\ settingsOpen /\ isAuthenticated /\ panelTab = "identity"
    /\ mayCall("regenerate_identity")
    /\ backendIdentity + regenerations <= MaxRegens
    /\ inflightPanel' = inflightPanel (+) one(call("regenerate_identity"))
    /\ lastPanel' = Step("panelRegenerate")
    /\ UNCHANGED sessionVars
    /\ UNCHANGED storeVars
    /\ UNCHANGED nonPanelVars

\* lines 303-306: regenerate_identity resolved; the backend has replaced its
\* identity and the panel shows the three details of the response
panelRegenerated(c) ==
    /\ BagIn(c, inflightPanel) /\ c.cmd = "regenerate_identity"
    /\ backendIdentity' = backendIdentity + 1
    /\ panelDetails' = backendIdentity + 1
    /\ inflightPanel' = take(c)
    /\ lastPanel' = Step("panelRegenerated")
    /\ UNCHANGED sessionVars
    /\ UNCHANGED <<backendSettings, whitelist, newDomain, backendWhitelist, wlCalls>>
    /\ UNCHANGED <<identityId, privacyDetails, regenCalls, groups, nextGroup,
                   anyFailed, lastId>>
    /\ UNCHANGED <<tabVars, toolVars, dlVars, mgrVars, kbVars>>

\* lines 307-309: regenerate_identity rejected; the catch logs
panelRegenerateRejected(c) ==
    /\ BagIn(c, inflightPanel) /\ c.cmd = "regenerate_identity"
    /\ anyFailed' = TRUE
    /\ inflightPanel' = take(c)
    /\ lastPanel' = Step("panelRegenerateFailed")
    /\ UNCHANGED sessionVars
    /\ UNCHANGED storeVars
    /\ UNCHANGED <<identityId, privacyDetails, backendIdentity, regenCalls, groups,
                   nextGroup, lastId>>
    /\ UNCHANGED <<tabVars, toolVars, dlVars, mgrVars, kbVars>>

---------------------------------------------------------------------------
(* Specifications *)

Init == InitTabs /\ InitPanel /\ InitIdentity /\ InitTools /\ InitNet /\ InitDownloads
           /\ InitManager /\ InitKeyboard

\* the tab registry alone, with one navigation in flight at a time and the
\* settings panel never opened
SpecTabs == Init /\ [][NextTabs]_vars

\* the navigations of the initial tab, several in flight at a time
NextNav ==
    \/ \E u \in NavInputs : navigateTo(u)
    \/ \E n \in BagToSet(navs) : navResolved(n)
    \/ \E n \in BagToSet(navs) : navTimer(n)
    \/ \E n \in BagToSet(navs) : navRejected(n)

SpecNav == Init /\ [][NextNav]_vars

\* the sessions of the settings panel: opening, the two unlocks, the loads
\* and closing
SpecPanel == Init /\ [][NextPanel]_vars

\* the toggles of the unlocked panel: the panel is opened, unlocked with the
\* right password, used and closed
NextSettings ==
    \/ openSettings
    \/ handleSettingsLogin
    \/ handleClose
    \/ \E k \in Keys : toggleSetting(k)
    \/ \E c \in BagToSet(inflightPanel) : settingsUnlocked(c)
    \/ \E c \in BagToSet(inflightPanel), b \in [Keys -> BOOLEAN] : settingsLoaded(c, b)
    \/ \E c \in BagToSet(inflightPanel) : loadRejected(c)
    \/ \E c \in BagToSet(inflightPanel) : dataLoaded(c)
    \/ \E c \in BagToSet(inflightPanel), ok \in BOOLEAN : dataLogsSettled(c, ok)
    \/ \E c \in BagToSet(inflightPanel), live \in BOOLEAN : liveLogsSettled(c, live)
    \/ \E c \in BagToSet(inflightPanel) : lockSettingsResolved(c)
    \/ \E c \in BagToSet(inflightPanel) : lockSettingsRejected(c)
    \/ \E c \in BagToSet(inflightPanel) : lockLogsSettled(c)
    \/ \E c \in BagToSet(inflightPanel) : settingPersisted(c)
    \/ \E c \in BagToSet(inflightPanel) : settingRejected(c)

SpecSettings == Init /\ [][NextSettings]_vars

\* the whitelist tab of the unlocked panel
NextWhitelist ==
    \/ openSettings
    \/ handleSettingsLogin
    \/ setActiveTab("whitelist")
    \/ \E c \in BagToSet(inflightPanel) : settingsUnlocked(c)
    \/ \E c \in BagToSet(inflightPanel), b \in [Keys -> BOOLEAN] : settingsLoaded(c, b)
    \/ \E c \in BagToSet(inflightPanel) : loadRejected(c)
    \/ \E c \in BagToSet(inflightPanel) : dataLoaded(c)
    \/ \E c \in BagToSet(inflightPanel), ok \in BOOLEAN : dataLogsSettled(c, ok)
    \/ \E c \in BagToSet(inflightPanel), live \in BOOLEAN : liveLogsSettled(c, live)
    \/ \E t \in DomainInputs : setNewDomain(t)
    \/ addToWhitelist
    \/ \E d \in Range(whitelist) : removeFromWhitelist(d)
    \/ \E c \in BagToSet(wlCalls) : addResolved(c)
    \/ \E c \in BagToSet(wlCalls) : removeResolved(c)
    \/ \E c \in BagToSet(wlCalls) : whitelistRejected(c)

SpecWhitelist == Init /\ [][NextWhitelist]_vars

\* the identity as the main view and the identity tab of the unlocked
\* panel show it
NextOneIdentity ==
    \/ NextIdentity
    \/ openSettings
    \/ handleSettingsLogin
    \/ setActiveTab("identity")
    \/ \E c \in BagToSet(inflightPanel) : settingsUnlocked(c)
    \/ \E c \in BagToSet(inflightPanel), b \in [Keys -> BOOLEAN] : settingsLoaded(c, b)
    \/ \E c \in BagToSet(inflightPanel) : loadRejected(c)
    \/ \E c \in BagToSet(inflightPanel) : dataLoaded(c)
    \/ \E c \in BagToSet(inflightPanel), ok \in BOOLEAN : dataLogsSettled(c, ok)
    \/ \E c \in BagToSet(inflightPanel), live \in BOOLEAN : liveLogsSettled(c, live)
    \/ panelRegenerate
    \/ \E c \in BagToSet(inflightPanel) : panelRegenerated(c)
    \/ \E c \in BagToSet(inflightPanel) : panelRegenerateRejected(c)

SpecOneIdentity == Init /\ [][NextOneIdentity]_vars

\* the privacy identity alone
SpecIdentity == Init /\ [][NextIdentity]_vars

\* the shell session of the IT tools panel
SpecShell == Init /\ [][NextShell]_vars

\* the diagnostics and the HTTP probe, with the shell connect that shares
\* their isLoading flag
SpecNet == Init /\ [][NextNet]_vars

\* the port scan, with the ports field edited
SpecPortScan == Init /\ [][NextPortScan]_vars

\* the download panel
SpecDownloads == Init /\ [][NextDownloads]_vars

\* the download manager
SpecManager == Init /\ [][NextManager]_vars

\* the polls of the download panel and of the download manager side by
\* side: a component polls when its earlier calls have settled, and the
\* manager is returned one of two lists
NextPolls ==
    \/ openDownloads
    \/ closeDownloads
    \/ dlCalls = EmptyBag /\ pollTick
    \/ \E c \in BagToSet(dlCalls), l \in Snapshots : downloadsLoaded(c, l)
    \/ \E c \in BagToSet(dlCalls), l \in VideoLists : videosLoaded(c, l)
    \/ \E c \in BagToSet(dlCalls) : directoryLoaded(c)
    \/ \E c \in BagToSet(dlCalls) : dlRejected(c)
    \/ managerCalls < MaxPolls /\ onDownloadsClick
    \/ closeManager
    \/ managerCalls = 0 /\ managerTick
    \/ \E data \in PollSnapshots : managerLoaded(data)
    \/ managerRejected

SpecPolls == Init /\ [][NextPolls]_vars

\* the lists returned where the calls of the manager overlap: the empty
\* list and every list of one download
OverlapSnapshots == { data \in ManagerSnapshots : Len(data) <= 1 }

\* the polls of the download manager with calls that overlap
NextOverlap ==
    \/ onDownloadsClick
    \/ closeManager
    \/ managerTick
    \/ \E data \in OverlapSnapshots : managerLoaded(data)
    \/ managerRejected

SpecOverlap == Init /\ [][NextOverlap]_vars

\* the forms of the IT tools panel filled in with blank and other texts
\* and submitted: the shell connect and execute, and the ping
TypedHosts == {EmptyStr, <<" ">>, <<"h">>}

NextForms ==
    \/ onToolsClick
    \/ \E t \in {"ssh", "network"} : setToolsTab(t)
    \/ \E h \in TypedHosts : setSshHost(h)
    \/ handleSshConnect
    \/ \E c \in BagToSet(shellCalls) : connectResolved(c)
    \/ \E c \in BagToSet(shellCalls) : connectRejected(c)
    \/ \E s \in Commands : setSshCommand(s)
    \/ handleSshExecute
    \/ \E c \in BagToSet(shellCalls) : executeRejected(c)
    \/ \E h \in TypedHosts : setNetworkHost(h)
    \/ handlePing
    \/ \E c \in BagToSet(netCalls) : runRejected(c)

SpecForms == Init /\ [][NextForms]_vars

\* the secure keyboard
SpecKeyboard == Init /\ [][NextKeyboard]_vars

\* everything together
Next == NextTabs \/ NextPanel \/ NextIdentity \/ NextShell \/ NextNet \/ NextPortScan
           \/ NextDownloads \/ NextManager \/ NextKeyboard \/ NextNav \/ NextPolls
           \/ NextForms \/ NextSettings \/ NextWhitelist \/ NextOverlap
           \/ NextOneIdentity

Spec == Init /\ [][Next]_vars

---------------------------------------------------------------------------
(* Properties of the tab registry, checked under SpecTabs *)

\* the ids a close leaves: those of the list it started from, without the closed id
restIds == SelectSeq(lastOp.ids, LAMBDA x : x # lastOp.id)

isBlank(t) == /\ t.title = NewTabTitle /\ t.url = EmptyStr
              /\ t.isLoading = FALSE /\ t.isSecure = TRUE

\* C1: after every operation the registry holds at least one tab, and a
\* close that removes the only remaining tab leaves exactly one blank tab.
C1_RegistryNeverEmpty ==
    /\ Len(tabs) >= 1
    /\ (lastOp.op = "close" /\ restIds = << >>)
          => (Len(tabs) = 1 /\ isBlank(tabs[1]) /\ tabs[1].id <= now)

\* a later tab, the only one remaining, has been closed
C1_Witness ==
    /\ lastOp.op = "close"
    /\ lastOp.ids = <<lastOp.id>>
    /\ lastOp.id # InitialId

\* C2 (as claimed): the active-tab pointer always designates a tab of the
\* registry.
C2_ActiveTabPresent == activeTabId \in ids(tabs)

\* C3: when the active tab, at index i, is closed and a tab remains, the
\* remaining tabs keep their order and the new active tab is the one at
\* index min(i, newSize - 1) of them.
C3_CloseActiveClamps ==
    (lastOp.op = "close" /\ lastOp.active = lastOp.id /\ restIds # << >>)
      => LET i == CHOOSE k \in 0..(Len(lastOp.ids) - 1) :
                    /\ lastOp.ids[k + 1] = lastOp.active
                    /\ \A j \in 0..(k - 1) : lastOp.ids[j + 1] # lastOp.active
         IN  /\ idSeq(tabs) = restIds
             /\ activeTabId = restIds[min(i, Len(restIds) - 1) + 1]

\* the active tab was the last of three tabs: its index is clamped
C3_Witness ==
    /\ lastOp.op = "close"
    /\ lastOp.active = lastOp.id
    /\ Len(lastOp.ids) = 3
    /\ lastOp.ids[3] = lastOp.id
    /\ Len(restIds) = 2
    /\ restIds[1] # restIds[2]

\* C4 (as claimed): no two tabs of the registry have the same id.
C4_UniqueIds ==
    \A i, j \in 1..Len(tabs) : i # j => tabs[i].id # tabs[j].id

\* C5: a close removes the tab at once, while close_browser_tab is still
\* unsettled, and the settlement of the call (resolved or rejected) changes
\* neither the registry nor the active tab.
C5_CloseRemovesLocally ==
    /\ lastOp.op = "close"
          => /\ closeCalls = {lastOp.id}
             /\ IF restIds = << >> THEN Len(tabs) = 1 /\ isBlank(tabs[1])
                                   ELSE idSeq(tabs) = restIds
    /\ lastOp.op = "closeSettle"
          => (tabs = lastOp.tabs /\ activeTabId = lastOp.active)

\* the call of a closed tab has settled after the tab was removed
C5_Witness ==
    /\ lastOp.op = "closeSettle"
    /\ lastOp.id \notin ids(tabs)
    /\ closeCalls = {}

NavOps == {"navigate", "navResolved", "navTimer", "navRejected"}

\* C31: a navigation is bound to the id that is active in the step that
\* starts it, and every step of a navigation (start, resolution, settle
\* timer, rejection) leaves the number of tabs and every tab with another
\* id as they were, whichever tab is active by then; when no tab has the
\* id any more the step changes no tab.
C31_NavigationTargetsItsTab ==
    /\ lastOp.op = "navigate" =>
           /\ lastOp.id = activeTabId
           /\ \E n \in BagToSet(navs) : n.tabId = activeTabId /\ n.phase = "call"
    /\ lastOp.op \in NavOps =>
           /\ Len(tabs) = Len(lastOp.tabs)
           /\ \A i \in 1..Len(tabs) :
                  /\ tabs[i].id = lastOp.tabs[i].id
                  /\ tabs[i].id # lastOp.id => tabs[i] = lastOp.tabs[i]

\* the settle timer of a navigation has retitled its tab while another tab
\* is active
C31_Witness ==
    /\ lastOp.op = "navTimer"
    /\ lastOp.id # activeTabId
    /\ Len(tabs) >= 2
    /\ \E i \in 1..Len(tabs) :
           /\ tabs[i].id = lastOp.id
           /\ tabs[i].title # lastOp.tabs[i].title
           /\ ~tabs[i].isLoading
    /\ \E i \in 1..Len(tabs) : tabs[i].id = activeTabId

---------------------------------------------------------------------------
(* Properties of the settings panel, checked under SpecPanel and SpecSettings *)

\* C6: when a set_setting call fails, the toggle's value after the failure
\* is handled is the value it had before the click that issued the call.
C6_FailedToggleReverts ==
    lastPanel.op = "settingRejected" => settings[lastPanel.key] = lastPanel.pre

\* a rejected call whose toggle was clicked again before it failed
C6_Witness ==
    /\ lastPanel.op = "settingRejected"
    /\ \E c \in BagToSet(inflightPanel) :
          c.cmd = "set_setting" /\ c.key = lastPanel.key

\* C7: whenever the panel is opened, the settings session and the logs
\* session are both locked, whatever they were while the panel was closed.
C7_OpensLocked ==
    lastPanel.op = "open" => (~isAuthenticated /\ ~isLogsAuthenticated)

\* the panel is opened after an unlock response arrived during the close
C7_Witness ==
    /\ lastPanel.op = "open"
    /\ lastPanel.before.auth

\* C8 (as claimed): every close of the panel has dispatched lock_settings
\* and lock_logs.
C8_CloseLocksBoth ==
    lastPanel.op = "closed" => lastPanel.sent = {"lock_settings", "lock_logs"}

\* C9: the outcome of an unlock of one domain, success or failure, leaves
\* the other domain's locked state and error message as they were.
C9_DomainsIndependent ==
    /\ lastPanel.op \in {"settingsUnlocked", "settingsUnlockFailed"}
          => /\ isLogsAuthenticated = lastPanel.before.logsAuth
             /\ logsPasswordError = lastPanel.before.logsErr
    /\ lastPanel.op \in {"logsUnlocked", "logsUnlockFailed"}
          => /\ isAuthenticated = lastPanel.before.auth
             /\ settingsPasswordError = lastPanel.before.err

\* the settings are unlocked while the logs gate shows an error
C9_Witness ==
    /\ lastPanel.op = "settingsUnlocked"
    /\ lastPanel.before.logsErr # NoError
    /\ ~lastPanel.before.logsAuth

\* C10 (as claimed): a failed unlock leaves the domain locked with an error
\* message, and the message is cleared when the next attempt is made.
C10_ErrorClearedOnAttempt ==
    /\ lastPanel.op = "settingsUnlockFailed"
          => (~isAuthenticated /\ settingsPasswordError # NoError)
    /\ lastPanel.op = "logsUnlockFailed"
          => (~isLogsAuthenticated /\ logsPasswordError # NoError)
    /\ lastPanel.op = "settingsLogin" => settingsPasswordError = NoError
    /\ lastPanel.op = "logsLogin" => logsPasswordError = NoError

\* C10 (amended): a failed unlock leaves the domain's locked state as it
\* was and records an error message; making the next attempt leaves the
\* message in place; a successful unlock and the opening of the panel
\* clear it.
C10_ErrorKeptUntilSuccess ==
    /\ lastPanel.op = "settingsUnlockFailed"
          => /\ isAuthenticated = lastPanel.before.auth
             /\ settingsPasswordError \in {IncorrectError, FailedError}
    /\ lastPanel.op = "logsUnlockFailed"
          => /\ isLogsAuthenticated = lastPanel.before.logsAuth
             /\ logsPasswordError \in {IncorrectError, FailedError}
    /\ lastPanel.op = "settingsLogin"
          => settingsPasswordError = lastPanel.before.err
    /\ lastPanel.op = "logsLogin"
          => logsPasswordError = lastPanel.before.logsErr
    /\ lastPanel.op = "settingsUnlocked" => settingsPasswordError = NoError
    /\ lastPanel.op = "logsUnlocked" => logsPasswordError = NoError
    /\ lastPanel.op = "open"
          => (settingsPasswordError = NoError /\ logsPasswordError = NoError)

\* the next attempt is made while the message of a failed one is shown
C10_Witness ==
    /\ lastPanel.op = "settingsLogin"
    /\ settingsPasswordError # NoError

ToggleOps == {"toggle", "settingPersisted", "settingRejected"}

\* C32: a step of a toggle on key k (the optimistic flip, the resolution of
\* its set_setting, the rollback after its rejection) leaves the local value
\* of every other key as it was, whatever other toggles are in flight.
C32_ToggleTouchesOnlyItsKey ==
    [][lastPanel'.op \in ToggleOps =>
           \A k \in Keys \ {lastPanel'.key} : settings'[k] = settings[k]]_vars

\* the toggle of torEnabled has been rolled back while a toggle of httpsOnly
\* is in flight and its optimistic value is shown
C32_Witness ==
    /\ lastPanel.op = "settingRejected"
    /\ lastPanel.key = "torEnabled"
    /\ \E c \in BagToSet(inflightPanel) :
           /\ c.cmd = "set_setting" /\ c.key = "httpsOnly"
           /\ settings["httpsOnly"] = c.value
           /\ c.value # defaultSettings["httpsOnly"]

\* the set_setting calls for key k that have not settled
pendingFor(k) == { c \in BagToSet(inflightPanel) : c.cmd = "set_setting" /\ c.key = k }

\* C33: whenever no set_setting call for a key is in flight, the value the
\* panel shows for the key is the value the backend holds for it.
C33_SettledValueIsBackendValue ==
    \A k \in Keys : pendingFor(k) = {} => settings[k] = backendSettings[k]

\* C34: a successful unlock response puts its domain into Unlocked only
\* while the panel is open and only when its request was submitted since the
\* panel was last opened.
C34_UnlockedByRequestOfThisPeriod ==
    lastPanel.op \in {"settingsUnlocked", "logsUnlocked"} =>
        /\ settingsOpen
        /\ ~lastPanel.earlier

\* the get_encrypted_logs calls in flight: the one of loadData (line 267,
\* "load_data_logs") and the one of handleLogsLogin (line 117)
logRequests(bag) ==
    CopiesIn(call("load_data_logs"), bag) + CopiesIn(call("get_encrypted_logs"), bag)

\* C35: a get_encrypted_logs call is dispatched only by the step that
\* applies a successful unlock of the logs domain.
C35_LogRequestedAfterLogsUnlock ==
    [][logRequests(inflightPanel') > logRequests(inflightPanel)
           => lastPanel'.op = "logsUnlocked"]_vars

---------------------------------------------------------------------------
(* Properties of the privacy identity, checked under SpecIdentity *)

\* C11: when regenerate_identity resolves, identityId becomes the returned
\* sessionId and the displayed details stay as they were; when a detail
\* fetch of the regeneration then fails, that failure changes neither the
\* details nor identityId; when regenerate_identity itself fails, neither
\* identityId nor the details change.
C11_RegenerateFailureKeepsDetails ==
    /\ lastId.op = "regenerated"
          => /\ identityId = lastId.session
             /\ privacyDetails = lastId.before.details
    /\ (lastId.op = "groupFailed" /\ lastId.kind = "regen")
          => /\ privacyDetails = lastId.before.details
             /\ identityId = lastId.before.identityId
    /\ lastId.op = "regenerateFailed"
          => /\ privacyDetails = lastId.before.details
             /\ identityId = lastId.before.identityId

\* a detail fetch of a regeneration has failed: the details shown are still
\* those of the identity before, identityId is the regenerated one
C11_Witness ==
    /\ lastId.op = "groupFailed"
    /\ lastId.kind = "regen"
    /\ identityId = backendIdentity
    /\ privacyDetails["fingerprint"] # NoDetail
    /\ \A s \in Slots : privacyDetails[s].ident # identityId

\* C12: the displayed details are all unset, or all three were delivered by
\* the same fetch group; a group in which a call rejects changes none of them.
C12_DetailsFromOneGroup ==
    /\ \/ privacyDetails = noDetails
       \/ /\ \A s \in Slots : privacyDetails[s] # NoDetail
          /\ \A s, t \in Slots : privacyDetails[s].group = privacyDetails[t].group
    /\ lastId.op = "groupFailed" => privacyDetails = lastId.before.details

\* the details of the initial group have been replaced by those of a
\* regeneration whose three fetches succeeded
C12_Witness ==
    /\ lastId.op = "groupApplied"
    /\ lastId.kind = "regen"
    /\ lastId.before.details # noDetails
    /\ privacyDetails # lastId.before.details

\* C36: when no identity call is in flight and none has been rejected, the
\* identityId of the status is the sessionId of the displayed fingerprint,
\* and it is the identity that is active at the backend.
C36_SettledIdentityAgrees ==
    (regenCalls = 0 /\ groups = {} /\ ~anyFailed) =>
        /\ identityId = privacyDetails["fingerprint"].ident
        /\ identityId = backendIdentity

---------------------------------------------------------------------------
(* Properties of the shell session, checked under SpecShell *)

IsPrefix(a, b) == Len(a) <= Len(b) /\ SubSeq(b, 1, Len(a)) = a

\* C13: the output log only grows by appending at the end: the log before
\* a step is a prefix of the log after it.
C13_LogAppendOnly == IsPrefix(lastShell.before.log, sshOutput)

\* C14: once the ssh_disconnect call of a disconnect has settled, the
\* connection id is cleared, one line has been appended to the log and the
\* session is Disconnected; the call carried the connection id held.
C14_DisconnectDisconnects ==
    /\ lastShell.op = "disconnect"
          => lastShell.call.conn = lastShell.before.connectionId
    /\ lastShell.op \in {"disconnectResolved", "disconnectRejected"}
          => /\ ~sshConnected
             /\ connectionId = EmptyId
             /\ Len(sshOutput) = Len(lastShell.before.log) + 1

\* C29: the step that submits a connect appends the connecting line to the
\* log and leaves ssh_connect in flight; the step in which ssh_connect
\* resolves stores the returned connection id, appends the success line and
\* leaves the session Connected; the step in which it rejects appends the
\* error line and leaves the connection id as it was and the session
\* Disconnected; after either the connect button is enabled again.
C29_ConnectOutcomes ==
    LET log == lastShell.before.log IN
    /\ lastShell.op = "connect" =>
           /\ sshOutput = Append(log, connectingLine(lastShell.call.host))
           /\ BagIn(lastShell.call, shellCalls)
           /\ lastShell.call.cmd = "ssh_connect"
    /\ lastShell.op = "connectResolved" =>
           /\ connectionId # EmptyId
           /\ connectionId # lastShell.before.connectionId
           /\ sshConnected
           /\ sshOutput = log \o <<ConnectedLine, BlankLine>>
           /\ ~isLoading
    /\ lastShell.op = "connectRejected" =>
           /\ connectionId = lastShell.before.connectionId
           /\ connectionId = EmptyId
           /\ ~sshConnected
           /\ sshOutput = Append(log, ErrorLine)
           /\ ~isLoading

\* C15: ssh_execute is dispatched only while Connected, with the connection
\* id held, which is the id of a connection; the command is echoed in the
\* dispatching step, before the call can resolve, and the lines of the
\* result are appended at the end of the log when it resolves.
C15_ExecuteWhileConnected ==
    /\ sshConnected => connectionId # EmptyId
    /\ lastShell.op = "execute"
          => /\ lastShell.before.connected
             /\ lastShell.call.conn = lastShell.before.connectionId
             /\ lastShell.call.conn # EmptyId
             /\ sshOutput = Append(lastShell.before.log, echoLine(lastShell.call.command))
             /\ BagIn(lastShell.call, shellCalls)
    /\ lastShell.op = "executeResolved"
          => /\ IsPrefix(lastShell.before.log, sshOutput)
             /\ \E o \in Stdouts, e \in Stderrs :
                   sshOutput = lastShell.before.log \o resultLines(o, e)
             /\ \A i \in 1..Len(sshOutput) :
                   sshOutput[i] = echoLine(lastShell.call.command)
                      => i <= Len(lastShell.before.log)

\* a command has been executed and both its stdout and its stderr are in
\* the log, after its echo
C15_Witness ==
    /\ lastShell.op = "executeResolved"
    /\ Len(sshOutput) = Len(lastShell.before.log) + 2
    /\ \E i \in 1..Len(lastShell.before.log) :
          sshOutput[i] = echoLine(lastShell.call.command)

\* the ssh_connect calls in flight
connecting == { c \in BagToSet(shellCalls) : c.cmd = "ssh_connect" }

\* C40: the session is Connected exactly when a connection id is held; a
\* connect is submitted only while Disconnected and is then the only connect
\* in flight; and a held connection id is replaced or cleared only by the
\* step in which an ssh_disconnect issued for that id resolves.
C40_ConnectionIdHeldWhileConnected ==
    LET held == lastShell.before.connectionId IN
    /\ sshConnected <=> connectionId # EmptyId
    /\ lastShell.op = "connect" =>
           /\ ~lastShell.before.connected
           /\ CopiesIn(lastShell.call, shellCalls) = 1
           /\ connecting = {lastShell.call}
    /\ (held # EmptyId /\ connectionId # held) =>
           /\ lastShell.op = "disconnectResolved"
           /\ lastShell.call.conn = held

---------------------------------------------------------------------------
(* Properties of the diagnostics and the HTTP probe, checked under SpecNet *)

\* C16: a diagnostic result is presented only as a result of the tool that
\* produced it, and a run replaces only a result of its own tool.
C16_ResultTaggedWithTool ==
    /\ presentedAs # "-" => presentedAs = networkResult.tool
    /\ (lastNet.op = "runResolved" /\ lastNet.result # NoResult)
          => lastNet.result.tool = lastNet.call.tool

\* the calls that the isLoading flag guards
gatedCalls ==
    BagCardinality(netCalls)
    + Cardinality({c \in BagToSet(shellCalls) : c.cmd = "ssh_connect"})

\* C17: isLoading, which disables the triggers, is set exactly while a
\* diagnostic, HTTP or connect call is in flight, so at most one is in
\* flight, and the flag is clear as soon as none is.
C17_TriggerDisabledWhileInFlight ==
    /\ gatedCalls <= 1
    /\ isLoading <=> gatedCalls = 1
    /\ isLoading => ~runEnabled

\* a run is in flight and the tool selector has been moved to another tool
C17_Witness ==
    /\ isLoading
    /\ \E c \in BagToSet(netCalls) : c.tool \in NetworkTools /\ c.tool # networkTool

\* C18: when http_request resolves the result shown is the backend's for
\* that request; when it rejects the result shown has statusCode 0, a status
\* text that carries the error and the url that was requested; at most one
\* probe is in flight, so a result is never replaced by that of an earlier
\* probe.
C18_ProbeAlwaysYieldsResult ==
    /\ Cardinality({c \in BagToSet(netCalls) : c.cmd = "http_request"}) <= 1
    /\ \A c \in BagToSet(netCalls) : c.cmd = "http_request" => CopiesIn(c, netCalls) = 1
    /\ lastNet.op = "httpResolved"
          => \E code \in StatusCodes : httpResult = httpResponse(lastNet.call, code)
    /\ lastNet.op = "httpRejected"
          => /\ httpResult.statusCode = 0
             /\ httpResult.url = lastNet.call.url
             /\ \E e \in Errors : httpResult.statusText = <<"Error: ", e>>

\* a probe has failed after the URL field was edited and after an earlier
\* probe of another url had succeeded
C18_Witness ==
    /\ lastNet.op = "httpRejected"
    /\ httpUrl # lastNet.call.url
    /\ httpResult.url = lastNet.call.url

---------------------------------------------------------------------------
(* Properties of the port list, checked under SpecPortScan *)

allDigits(s) == s # EmptyStr /\ \A i \in 1..Len(s) : s[i] \in Digits

\* the entries of the comma-separated input that are numbers, as numbers
numericEntries(s) ==
    LET pieces == split(s, EmptyStr)
    IN  concat([i \in 1..Len(pieces) |->
                  IF allDigits(trim(pieces[i])) THEN <<decimal(trim(pieces[i]), 0)>>
                                                ELSE << >>])

\* C19: the ports sent to network_port_scan are the numeric entries of the
\* ports field, in order, every other entry dropped.
C19_PortsAreNumericEntries ==
    lastNet.op = "portScan" => lastNet.call.ports = numericEntries(lastNet.portRange)

---------------------------------------------------------------------------
(* Properties of the download panel, checked under SpecDownloads *)

\* C20: no get_downloads or get_all_detected_videos request is dispatched
\* while the panel is closed; at most one poll timer exists, and none while
\* the panel is closed; every open polls at once and starts the timer.
C20_NoPollWhileClosed ==
    /\ lastDl.sent \cap PollCommands # {} => dlOpen
    /\ pollTimers <= 1
    /\ ~dlOpen => pollTimers = 0
    /\ lastDl.op = "open" => (PollCommands \subseteq lastDl.sent /\ pollTimers = 1)

---------------------------------------------------------------------------
(* Properties of the download manager, checked under SpecManager and      *)
(* SpecOverlap                                                             *)

count(list, P(_)) == Cardinality({ i \in 1..Len(list) : P(list[i]) })

\* C21: the counters are always those of the list in the mirror and of
\* nothing else: total is its length, scanned its Completed or Safe items,
\* threats-blocked its Failed items whose error contains "threat", pending
\* its Pending items and in-progress its Downloading items; and an applied
\* poll puts the items of its own response into the mirror.
C21_CountersFromSnapshot ==
    /\ stats.total_downloads = Len(managerDownloads)
    /\ stats.total_scanned = count(managerDownloads, LAMBDA d : d.status \in {"Completed", "Safe"})
    /\ stats.threats_blocked =
           count(managerDownloads,
                 LAMBDA d : d.status = "Failed" /\ includesStr(d.error, ThreatText))
    /\ stats.pending = count(managerDownloads, LAMBDA d : d.status = "Pending")
    /\ stats.in_progress = count(managerDownloads, LAMBDA d : d.status = "Downloading")
    /\ lastManager.op = "loaded" =>
           /\ Len(managerDownloads) = Len(lastManager.data)
           /\ \A i \in 1..Len(managerDownloads) :
                  /\ managerDownloads[i].status = lastManager.data[i].state
                  /\ managerDownloads[i].error = lastManager.data[i].error

\* a poll that finds one of two pending downloads completed
C21_Witness ==
    /\ lastManager.op = "loaded"
    /\ lastManager.pending = 2
    /\ Len(managerDownloads) = 2
    /\ managerDownloads[1].status = "Pending"
    /\ managerDownloads[2].status = "Completed"
    /\ stats.pending = 1
    /\ stats.total_scanned = 1

\* C39: the response that is applied to the mirror and the counters is
\* never that of a get_downloads call dispatched before the call whose
\* response they already show.
C39_NoOlderResponseApplied ==
    lastManager.op = "loaded" => ~lastManager.overtaken

---------------------------------------------------------------------------
(* Properties of the polls of both download components, checked under      *)
(* SpecPolls                                                               *)

\* C22: a get_downloads or get_all_detected_videos that resolves leaves in
\* the mirror exactly the list it returned, in the download panel and in
\* the download manager, whatever the mirror held before; one that rejects
\* leaves the mirrors, and the counters of the manager, as they were.
C22_MirrorIsResponse ==
    /\ lastDl.op = "downloadsLoaded" => downloads = lastDl.list
    /\ lastDl.op = "videosLoaded" => detectedVideos = lastDl.list
    /\ lastDl.op = "rejected" => <<downloads, detectedVideos>> = lastDl.before
    /\ lastManager.op = "loaded" =>
           /\ Len(managerDownloads) = Len(lastManager.data)
           /\ \A i \in 1..Len(managerDownloads) :
                  /\ managerDownloads[i].state = lastManager.data[i].state
                  /\ managerDownloads[i].error = lastManager.data[i].error
    /\ lastManager.op = "rejected" =>
           /\ managerDownloads = lastManager.before
           /\ stats = lastManager.stats

\* the manager applied an empty list over a mirror of one pending download,
\* and the panel, holding a download, had its get_downloads rejected
C22_Witness ==
    /\ lastManager.op = "loaded"
    /\ lastManager.pending = 1
    /\ managerDownloads = << >>
    /\ lastDl.op = "rejected"
    /\ lastDl.call.cmd = "get_downloads"
    /\ downloads # << >>

---------------------------------------------------------------------------
(* Properties of the download panel, checked under SpecDownloads *)

RefreshedCommands == ItemCommands \cup {"clear_completed_downloads"}

StartCommands == {"start_download", "download_video"}

\* C24: the step that starts a download dispatches the creating call alone;
\* the step in which that call resolves dispatches execute_download with
\* the id of the job the call returned; an execute_download in flight
\* always carries the id of a created job, so none follows a creating call
\* that rejected; and the step in which a creating call or an
\* execute_download rejects dispatches nothing.
C24_StartThenExecute ==
    /\ lastDl.op \in {"startDownload", "downloadVideo"} =>
           /\ lastDl.sent \subseteq StartCommands
           /\ Cardinality(lastDl.sent) = 1
    /\ lastDl.op \in {"startResolved", "videoStartResolved"} =>
           /\ lastDl.call.cmd \in StartCommands
           /\ "execute_download" \in lastDl.sent
           /\ BagIn(dlCall("execute_download", lastDl.list[1].id, EmptyStr), dlCalls)
    /\ \A c \in BagToSet(dlCalls) :
           c.cmd = "execute_download" => c.id \in 1..(nextJob - 1)
    /\ \A c \in BagToSet(dlCalls) :
           c.cmd = "execute_download" => CopiesIn(c, dlCalls) = 1
    /\ (lastDl.op = "rejected"
          /\ lastDl.call.cmd \in StartCommands \cup {"execute_download"}) =>
           lastDl.sent = {}

\* the execute_download of a created job has been rejected
C24_Witness ==
    /\ lastDl.op = "rejected"
    /\ lastDl.call.cmd = "execute_download"
    /\ lastDl.call.id = nextJob - 1
    /\ lastDl.sent = {}

---------------------------------------------------------------------------
(* Properties of navigation, checked under SpecNav *)

SchemeMark == <<":","/","/">>

\* the text starts with a scheme name followed by "://"
hasScheme(s) ==
    \E i \in 2..Len(s) :
        /\ i + 2 <= Len(s)
        /\ SubSeq(s, i, i + 2) = SchemeMark
        /\ \A j \in 1..(i - 1) : s[j] \notin {".", ":", "/", " "}

\* the url C25 gives for a submitted text
claimedUrl(s) ==
    IF ~includes(s, ".") \/ includes(s, " ") THEN SearchPrefix \o encodeURIComponent(s)
    ELSE IF ~hasScheme(s) THEN HttpsScheme \o s
    ELSE s

\* C25: the url a navigation gives its tab is the search url with the
\* encoded text when the text has no "." or has a space, else "https://"
\* and the text when the text has no scheme of its own, else the text.
C25_ResolveAsClaimed ==
    lastOp.op = "navigate" =>
        \A i \in 1..Len(tabs) :
            tabs[i].id = lastOp.id => tabs[i].url = claimedUrl(lastOp.input)

\* C26: a tab is loading from the step that starts a navigation on it, and
\* for as long as a navigation of that tab has an unsettled
\* create_browser_tab or a running settle timer.
C26_LoadingWhileOutstanding ==
    \A i \in 1..Len(tabs) :
        (\E n \in BagToSet(navs) : n.tabId = tabs[i].id) => tabs[i].isLoading

\* the host part of an http(s) url, read off the text
hostText(u) ==
    LET rest == IF startsWith(u, HttpsScheme) THEN SubSeq(u, 9, Len(u))
                ELSE SubSeq(u, 8, Len(u))
        stop == { i \in 1..Len(rest) : rest[i] \in {"/", "?", "#", ":"} }
        end  == IF stop = {} THEN Len(rest)
                ELSE (CHOOSE i \in stop : \A j \in stop : i <= j) - 1
    IN  SubSeq(rest, 1, end)

\* C30: the step that starts a navigation gives the tab the resolved url
\* and isSecure exactly when that url starts with "https://"; the step in
\* which the settle timer of a navigation fires leaves the tab not loading
\* and titled with the host of the navigation's url; the step in which
\* create_browser_tab rejects leaves the tab not loading and its title as
\* it was.
C30_NavigateOutcome ==
    \A i \in 1..Len(tabs) :
        tabs[i].id = lastOp.id =>
            /\ lastOp.op = "navigate" =>
                   /\ tabs[i].url = resolve(lastOp.input)
                   /\ tabs[i].isSecure = startsWith(tabs[i].url, HttpsScheme)
            /\ lastOp.op = "navTimer" =>
                   /\ ~tabs[i].isLoading
                   /\ tabs[i].title = hostText(lastOp.input)
            /\ lastOp.op = "navRejected" =>
                   /\ ~tabs[i].isLoading
                   /\ Len(lastOp.tabs) = Len(tabs)
                   /\ tabs[i].title = lastOp.tabs[i].title

---------------------------------------------------------------------------
(* Properties of the secure keyboard, checked under SpecKeyboard *)

\* C27: the step in which process_virtual_key settles applies the outcome:
\* Character makes the buffer one character longer and passes that
\* character to onInput; Backspace drops the last character of the buffer
\* and leaves an empty buffer empty; Space appends one space; Enter leaves
\* the buffer as it was; ModifierToggled leaves the buffer as it was and
\* changes no flag but the named one; a rejection leaves the buffer and the
\* flags as they were.
C27_KeyOutcomes ==
    LET r == lastKey.result
        b == lastKey.buffer
        flagsKept == isShift = lastKey.isShift /\ isCaps = lastKey.isCaps
    IN
    /\ (lastKey.op = "key" /\ r.type = "Character") =>
           /\ Len(inputValue) = Len(b) + 1
           /\ SubSeq(inputValue, 1, Len(b)) = b
           /\ lastKey.forwarded = << <<inputValue[Len(inputValue)]>> >>
           /\ flagsKept
    /\ (lastKey.op = "key" /\ r.type = "Backspace") =>
           /\ inputValue = (IF b = << >> THEN << >> ELSE SubSeq(b, 1, Len(b) - 1))
           /\ flagsKept
    /\ (lastKey.op = "key" /\ r.type = "Space") =>
           /\ inputValue = b \o <<" ">>
           /\ flagsKept
    /\ (lastKey.op = "key" /\ r.type = "Enter") =>
           /\ inputValue = b
           /\ flagsKept
    /\ (lastKey.op = "key" /\ r.type = "ModifierToggled") =>
           /\ inputValue = b
           /\ r.modifier = "Shift" => (isShift = r.active /\ isCaps = lastKey.isCaps)
           /\ r.modifier = "CapsLock" => (isCaps = r.active /\ isShift = lastKey.isShift)
    /\ (lastKey.op = "rejected" /\ lastKey.call.cmd = "process_virtual_key") =>
           /\ inputValue = b
           /\ flagsKept

---------------------------------------------------------------------------
(* Properties of the forms of the IT tools panel, checked under SpecForms *)

blank(s) == trim(s) = EmptyStr

\* C28: no call in flight carries a blank host or a blank shell command:
\* ssh_connect and the diagnostics have a host that is not blank, and
\* ssh_execute has a command that is not blank.
C28_NoBlankDispatch ==
    /\ \A c \in BagToSet(shellCalls) :
           /\ c.cmd = "ssh_connect" => ~blank(c.host)
           /\ c.cmd = "ssh_execute" => ~blank(c.command)
    /\ \A c \in BagToSet(netCalls) :
           c.cmd \in {"network_ping", "network_port_scan", "network_dns_lookup"}
               => ~blank(c.host)

---------------------------------------------------------------------------
(* Properties of the whitelist, checked under SpecWhitelist *)

\* C38: whenever no whitelist call and no load of the panel's data is in
\* flight, the displayed whitelist holds exactly the domains of the
\* backend's whitelist: those loaded at unlock, plus the ones added and
\* minus the ones removed by the calls that resolved.
C38_SettledWhitelistIsBackendList ==
    (wlCalls = EmptyBag /\ ~BagIn(call("load_data"), inflightPanel)) =>
        Range(whitelist) = Range(backendWhitelist)

---------------------------------------------------------------------------
(* Properties of the identity in both views, checked under SpecOneIdentity *)

\* no identity call of either view is in flight and none has been rejected
IdentitySettled ==
    /\ regenerations = 0 /\ groups = {} /\ ~anyFailed
    /\ ~BagIn(call("load_data"), inflightPanel)

\* C37: with every identity call settled, after a regeneration from the
\* settings panel the main view shows the identity the panel shows, and
\* after a regeneration from the main view the unlocked panel shows the
\* identity the main view shows.
C37_OneIdentityInBothViews ==
    /\ (IdentitySettled /\ lastPanel.op = "panelRegenerated") =>
           /\ identityId = panelDetails
           /\ privacyDetails["fingerprint"].ident = panelDetails
    /\ (IdentitySettled /\ lastId.op = "groupApplied" /\ lastId.kind = "regen"
          /\ settingsOpen /\ isAuthenticated /\ panelDetails # EmptyId) =>
           panelDetails = identityId

===========================================================================
